---------------------------- MODULE Spec2Model ----------------------------
(***************************************************************************)
(* A model of the "constant" stack language: the Literal value model       *)
(* (src/src/lexer/token.rs), the lexer (src/src/lexer/mod.rs), the parser  *)
(* (src/src/parser/mod.rs) and the tree-walking interpreter with its REPL  *)
(* (src/src/interpreter/mod.rs).                                           *)
(*                                                                         *)
(* Text is a sequence of one-character strings.  An f32 is modelled as a   *)
(* rational num/den in lowest terms with den > 0; den = 0 encodes the      *)
(* special values +inf (num = 1), -inf (num = -1) and NaN (num = 0).       *)
(* Rounding and signed zero are not modelled: the values the model draws   *)
(* are small enough for f32 arithmetic on them to be exact.                *)
(***************************************************************************)
EXTENDS Integers, Sequences, FiniteSets, TLC

(***************************************************************************)
(* Bounds of the model.                                                    *)
(***************************************************************************)
MaxStack == 6
MaxDepth == 6
MaxLines == 3
MaxIter == 3

(***************************************************************************)
(* Literal  (token.rs:72-77).  Every literal is a record of one shape so   *)
(* that values of different kinds can be compared.                         *)
(***************************************************************************)
\* `let v = <value>; <body of v>`: the value is computed once
With(v, Body(_)) == Body(v)

Abs(n) == IF n < 0 THEN -n ELSE n

Sign(n) == IF n < 0 THEN -1 ELSE IF n > 0 THEN 1 ELSE 0

RECURSIVE Gcd(_, _)
Gcd(a, b) == IF b = 0 THEN a ELSE Gcd(b, a % b)

\* f32 value num/den, in lowest terms; den = 0 is inf, -inf or NaN.
F32(n, d) ==
    IF d = 0 THEN [num |-> Sign(n), den |-> 0]
    ELSE LET s == IF d < 0 THEN -1 ELSE 1
             g == Gcd(Abs(n), Abs(d))
         IN  [num |-> (s * n) \div g, den |-> (s * d) \div g]

NaN == [num |-> 0, den |-> 0]
IsNaN(x) == x.den = 0 /\ x.num = 0
IsInf(x) == x.den = 0 /\ x.num # 0
IsFinite(x) == x.den # 0

Number(x) == [kind |-> "Number", num |-> x.num, den |-> x.den, str |-> <<>>, bool |-> FALSE]
Num(n)    == Number(F32(n, 1))
String(s) == [kind |-> "String", num |-> 0, den |-> 1, str |-> s, bool |-> FALSE]
Bool(b)   == [kind |-> "Bool",   num |-> 0, den |-> 1, str |-> <<>>, bool |-> b]

Val(l) == [num |-> l.num, den |-> l.den]

\* f32 arithmetic (IEEE 754 special cases, exact otherwise)
FAdd(x, y) ==
    IF IsNaN(x) \/ IsNaN(y) THEN NaN
    ELSE IF IsInf(x) /\ IsInf(y) THEN (IF x.num = y.num THEN x ELSE NaN)
    ELSE IF IsInf(x) THEN x
    ELSE IF IsInf(y) THEN y
    ELSE F32(x.num * y.den + y.num * x.den, x.den * y.den)

FNeg(x) == [num |-> -x.num, den |-> x.den]

FSub(x, y) == FAdd(x, FNeg(y))

FMul(x, y) ==
    IF IsNaN(x) \/ IsNaN(y) THEN NaN
    ELSE IF IsInf(x) \/ IsInf(y) THEN F32(Sign(x.num) * Sign(y.num), 0)
    ELSE F32(x.num * y.num, x.den * y.den)

FDiv(x, y) ==
    IF IsNaN(x) \/ IsNaN(y) THEN NaN
    ELSE IF IsInf(x) /\ IsInf(y) THEN NaN
    ELSE IF IsInf(x) THEN F32(x.num * (IF y.num < 0 THEN -1 ELSE 1), 0)
    ELSE IF IsInf(y) THEN F32(0, 1)
    ELSE IF y.num = 0 THEN F32(Sign(x.num), 0)
    ELSE F32(x.num * y.den, x.den * y.num)

\* truncation toward zero of a finite value
Trunc(x) == Sign(x.num) * (Abs(x.num) \div x.den)

\* the remainder of Rust's % on floats: the sign of the dividend
FRem(x, y) ==
    IF IsNaN(x) \/ IsNaN(y) \/ IsInf(x) THEN NaN
    ELSE IF IsInf(y) THEN x
    ELSE IF y.num = 0 THEN NaN
    ELSE FSub(x, FMul(F32(Trunc(FDiv(x, y)), 1), y))

\* partial_cmp of f32: "Less", "Equal", "Greater" or "None"
FCmp(x, y) ==
    IF IsNaN(x) \/ IsNaN(y) THEN "None"
    ELSE IF IsInf(x) /\ IsInf(y)
         THEN (IF x.num = y.num THEN "Equal" ELSE IF x.num < y.num THEN "Less" ELSE "Greater")
    ELSE IF IsInf(x) THEN (IF x.num > 0 THEN "Greater" ELSE "Less")
    ELSE IF IsInf(y) THEN (IF y.num > 0 THEN "Less" ELSE "Greater")
    ELSE LET l == x.num * y.den
             r == y.num * x.den
         IN  IF l < r THEN "Less" ELSE IF l > r THEN "Greater" ELSE "Equal"

(***************************************************************************)
(* ConstantError  (error.rs:5-37; NonMatchingToken is what parser/mod.rs   *)
(* constructs).  One record shape: kind, a text or token name, a number,   *)
(* and the set of expected token kinds of a parser error.                  *)
(***************************************************************************)
Error(kind, msg, n) == [kind |-> kind, msg |-> msg, n |-> n, expected |-> {}]

NoError == Error("None", "", 0)
StringNotTerminated == Error("StringNotTerminated", "", 0)
InvalidString(s, pos) == Error("InvalidString", s, pos)
InvalidStackAmount(action, n) == Error("InvalidStackAmount", action, n)
InvalidOperation(msg) == Error("InvalidOperation", msg, 0)
IdentDoesNotExist(i) == Error("IdentDoesNotExist", i, 0)
ProcDoesNotExist(i) == Error("ProcDoesNotExist", i, 0)
NonMatchingToken(found, exp) == [kind |-> "NonMatchingToken", msg |-> found, n |-> 0, expected |-> exp]

\* Result<Literal, ConstantError>, and the third outcome of a call: a panic
Ok(v)  == [tag |-> "Ok",    val |-> v,           err |-> NoError]
Err(e) == [tag |-> "Err",   val |-> Bool(FALSE), err |-> e]
Panic  == [tag |-> "Panic", val |-> Bool(FALSE), err |-> NoError]

(***************************************************************************)
(* Characters.  CodeOrder lists the characters of the model in increasing  *)
(* code point order; "NUL" stands for '\0' and "SUP2" for the non-ASCII    *)
(* numeric character U+00B2.                                               *)
(***************************************************************************)
CodeOrder ==
    << "NUL", "\n", " ", "!", "\"", "#", "%", "*", "+", "-", ".", "/",
       "0", "1", "2", "3", "4", "5", "6", "7", "8", "9",
       "<", "=", ">", "A", "B", "Z", "_",
       "a", "b", "c", "d", "e", "f", "g", "h", "i", "j", "k", "l", "m",
       "n", "o", "p", "q", "r", "s", "t", "u", "v", "w", "x", "y", "z",
       "SUP2" >>

CharCode(c) == CHOOSE i \in 1..Len(CodeOrder) : CodeOrder[i] = c

\* Ord::cmp of two strings: lexicographic by character
RECURSIVE StrCmp(_, _)
StrCmp(s, t) ==
    IF s = <<>> /\ t = <<>> THEN "Equal"
    ELSE IF s = <<>> THEN "Less"
    ELSE IF t = <<>> THEN "Greater"
    ELSE IF CharCode(Head(s)) < CharCode(Head(t)) THEN "Less"
    ELSE IF CharCode(Head(s)) > CharCode(Head(t)) THEN "Greater"
    ELSE StrCmp(Tail(s), Tail(t))

\* the text of a character sequence
RECURSIVE Text(_)
Text(s) == IF s = <<>> THEN "" ELSE Head(s) \o Text(Tail(s))

RECURSIVE Pow10(_)
Pow10(n) == IF n = 0 THEN 1 ELSE 10 * Pow10(n - 1)

(***************************************************************************)
(* impl Display for Literal  (token.rs:79-87): the characters println!     *)
(* writes.  A number without a fraction prints as an integer, one with a   *)
(* finite decimal expansion prints it in full; other fractions are cut     *)
(* after MaxDecimals places, where Rust prints the shortest expansion that *)
(* reads back as the same f32.                                             *)
(***************************************************************************)
MaxDecimals == 8

DigitChar(d) == << "0", "1", "2", "3", "4", "5", "6", "7", "8", "9" >>[d + 1]

RECURSIVE DecDigits(_)
DecDigits(n) ==
    IF n < 10 THEN << DigitChar(n) >> ELSE Append(DecDigits(n \div 10), DigitChar(n % 10))

\* the number of decimal places of 1/d
RECURSIVE Places(_, _)
Places(d, k) == IF k = MaxDecimals \/ Pow10(k) % d = 0 THEN k ELSE Places(d, k + 1)

RECURSIVE Zeros(_)
Zeros(n) == IF n <= 0 THEN <<>> ELSE << "0" >> \o Zeros(n - 1)

Fraction(r, d, k) ==
    With(DecDigits((r * Pow10(k)) \div d),
         LAMBDA ds : IF k = 0 THEN <<>> ELSE << "." >> \o Zeros(k - Len(ds)) \o ds)

DisplayNumber(x) ==
    IF IsNaN(x) THEN << "N", "a", "N" >>
    ELSE IF IsInf(x) THEN (IF x.num < 0 THEN << "-" >> ELSE <<>>) \o << "i", "n", "f" >>
    ELSE (IF x.num < 0 THEN << "-" >> ELSE <<>>)
           \o DecDigits(Abs(x.num) \div x.den)
           \o Fraction(Abs(x.num) % x.den, x.den, Places(x.den, 0))

Display(l) ==
    CASE l.kind = "Number" -> DisplayNumber(Val(l))
      [] l.kind = "String" -> l.str
      [] l.kind = "Bool" -> IF l.bool THEN << "t", "r", "u", "e" >> ELSE << "f", "a", "l", "s", "e" >>

(***************************************************************************)
(* #[derive(PartialEq, PartialOrd)] on Literal  (token.rs:72-77)           *)
(***************************************************************************)
\* the position of the variant in the enum declaration
Discriminant(l) == CASE l.kind = "Number" -> 0 [] l.kind = "String" -> 1 [] l.kind = "Bool" -> 2

\* derived partial_cmp: the variants first, then the payloads
PartialCmp(a, b) ==
    IF Discriminant(a) < Discriminant(b) THEN "Less"
    ELSE IF Discriminant(a) > Discriminant(b) THEN "Greater"
    ELSE IF a.kind = "Number" THEN FCmp(Val(a), Val(b))
    ELSE IF a.kind = "String" THEN StrCmp(a.str, b.str)
    ELSE IF a.bool = b.bool THEN "Equal"
    ELSE IF b.bool THEN "Less" ELSE "Greater"

\* an equality that compares the variants only
PartialEqVariant(a, b) == a.kind = b.kind

\* derived eq: same variant and equal payloads (NaN is not equal to itself)
PartialEq(a, b) ==
    /\ a.kind = b.kind
    /\ IF a.kind = "Number" THEN FCmp(Val(a), Val(b)) = "Equal" ELSE a = b

(***************************************************************************)
(* impl Add/Sub/Mul/Div/Rem for Literal  (token.rs:89-219)                 *)
(***************************************************************************)
Add(self, rhs) ==
    CASE self.kind = "Number" ->
            IF rhs.kind = "Number" THEN Ok(Number(FAdd(Val(self), Val(rhs))))
            ELSE Err(InvalidOperation("Can only add numbers to numbers"))
      [] self.kind = "Bool" -> Err(InvalidOperation("Cannot add booleans"))
      [] self.kind = "String" ->
            IF rhs.kind = "String" THEN Ok(String(self.str \o rhs.str))
            ELSE Err(InvalidOperation("Can only add strings to strings"))

\* a subtraction that takes the first operand from the second
SubReversed(self, rhs) ==
    CASE self.kind = "Number" ->
            IF rhs.kind = "Number" THEN Ok(Number(FSub(Val(rhs), Val(self))))
            ELSE Err(InvalidOperation("Can only subtract numbers from numbers"))
      [] self.kind = "Bool" -> Err(InvalidOperation("Cannot subtract booleans"))
      [] self.kind = "String" -> Err(InvalidOperation("Cannot subtract strings"))

Sub(self, rhs) ==
    CASE self.kind = "Number" ->
            IF rhs.kind = "Number" THEN Ok(Number(FSub(Val(self), Val(rhs))))
            ELSE Err(InvalidOperation("Can only subtract numbers from numbers"))
      [] self.kind = "Bool" -> Err(InvalidOperation("Cannot subtract booleans"))
      [] self.kind = "String" -> Err(InvalidOperation("Cannot subtract strings"))

\* `n as usize`: NaN and negatives give 0, +inf saturates, else truncation.
\* -1 stands for usize::MAX.
AsUsize(x) ==
    IF IsNaN(x) THEN 0
    ELSE IF IsInf(x) THEN (IF x.num > 0 THEN -1 ELSE 0)
    ELSE IF x.num < 0 THEN 0
    ELSE Trunc(x)

RECURSIVE Repeat(_, _)
Repeat(s, n) == IF n <= 0 THEN <<>> ELSE s \o Repeat(s, n - 1)

\* str::repeat: len * n overflowing usize panics ("capacity overflow")
StrRepeat(s, n) ==
    IF n = -1 THEN (IF s = <<>> THEN Ok(String(<<>>)) ELSE Panic)
    ELSE Ok(String(Repeat(s, n)))

\* a multiplication that also repeats a string given as second operand
MulEitherOrder(self, rhs) ==
    CASE self.kind = "Number" ->
            IF rhs.kind = "Number" THEN Ok(Number(FMul(Val(self), Val(rhs))))
            ELSE IF rhs.kind = "String" THEN StrRepeat(rhs.str, AsUsize(Val(self)))
            ELSE Err(InvalidOperation("Can only multiply numbers with numbers"))
      [] self.kind = "Bool" -> Err(InvalidOperation("Cannot multiply booleans"))
      [] self.kind = "String" ->
            IF rhs.kind = "Number" THEN StrRepeat(self.str, AsUsize(Val(rhs)))
            ELSE Err(InvalidOperation("Can only multiply strings with numbers"))

Mul(self, rhs) ==
    CASE self.kind = "Number" ->
            IF rhs.kind = "Number" THEN Ok(Number(FMul(Val(self), Val(rhs))))
            ELSE Err(InvalidOperation("Can only multiply numbers with numbers"))
      [] self.kind = "Bool" -> Err(InvalidOperation("Cannot multiply booleans"))
      [] self.kind = "String" ->
            IF rhs.kind = "Number" THEN StrRepeat(self.str, AsUsize(Val(rhs)))
            ELSE Err(InvalidOperation("Can only multiply strings with numbers"))

Div(self, rhs) ==
    CASE self.kind = "Number" ->
            IF rhs.kind = "Number" THEN Ok(Number(FDiv(Val(self), Val(rhs))))
            ELSE Err(InvalidOperation("Can only divide numbers with number"))
      [] self.kind = "Bool" -> Err(InvalidOperation("Cannot divide with booleans"))
      [] self.kind = "String" -> Err(InvalidOperation("Cannot divide with strings"))

Rem(self, rhs) ==
    CASE self.kind = "Number" ->
            IF rhs.kind = "Number" THEN Ok(Number(FRem(Val(self), Val(rhs))))
            ELSE Err(InvalidOperation("Can only mod numbers with numbers"))
      [] self.kind = "Bool" -> Err(InvalidOperation("Cannot mod with booleans"))
      [] self.kind = "String" -> Err(InvalidOperation("Cannot mod with strings"))

(***************************************************************************)
(* Statement, DoubleOpType, SingleOpType, Value  (parser/ast.rs).  Every   *)
(* statement is a record of one shape; the fields a variant does not have  *)
(* are empty.                                                              *)
(***************************************************************************)
DoubleOpType ==
    { "Add", "Sub", "Mul", "Div", "Mod", "GT", "GTEq", "LT", "LTEq",
      "Eq", "NotEq", "And", "Or", "Swap" }

SingleOpType == { "Print", "Dup", "Drop" }

ValueLiteral(l) == [tag |-> "Literal", lit |-> l, ident |-> ""]
ValueIdent(i)   == [tag |-> "Ident", lit |-> Bool(FALSE), ident |-> i]

Statement(type, value, op, ident, conds, body, elifs, els) ==
    [ type |-> type, value |-> value, op |-> op, ident |-> ident,
      conds |-> conds, body |-> body, elifs |-> elifs, els |-> els ]

Empty == Statement("Empty", ValueIdent(""), "", "", <<>>, <<>>, <<>>, <<>>)
Push(v) == [Empty EXCEPT !.type = "Push", !.value = v]
DoubleOperation(o) == [Empty EXCEPT !.type = "DoubleOperation", !.op = o]
SingleOperation(o) == [Empty EXCEPT !.type = "SingleOperation", !.op = o]
Bind(i) == [Empty EXCEPT !.type = "Bind", !.ident = i]
If(conditions, statements, elifs, else_statements) ==
    [Empty EXCEPT !.type = "If", !.conds = conditions, !.body = statements,
                  !.elifs = elifs, !.els = else_statements]
While(conditions, statements) ==
    [Empty EXCEPT !.type = "While", !.conds = conditions, !.body = statements]
Procedure(i, statements) == [Empty EXCEPT !.type = "Procedure", !.ident = i, !.body = statements]
Call(i) == [Empty EXCEPT !.type = "Call", !.ident = i]

\* shorthands for writing programs
PushL(l) == Push(ValueLiteral(l))
PushI(i) == Push(ValueIdent(i))
Op2(o) == DoubleOperation(o)
Op1(o) == SingleOperation(o)

(***************************************************************************)
(* Interpreter  (interpreter/mod.rs:9-16).  stack, program, idents and     *)
(* procs are the fields of the struct (current_statement and current_pos   *)
(* are written by new and repl and never read).  The recursion of          *)
(* interpret_statement is the sequence frames: one frame for every         *)
(* statement list being iterated, innermost last.  status is where the     *)
(* process is: "new", "running", "done", "error", "prompt", "exited",      *)
(* "panic".  output is what was written to stdout.                         *)
(*                                                                         *)
(* evals and ran of a frame record, for the If or While statement the      *)
(* frame is executing, the values its conditions popped and the bodies it  *)
(* entered; exited keeps them for the While loop that last ended.          *)
(*                                                                         *)
(* In mode "file" (main.rs:18-26) code is the text of the source file,     *)
(* lexed the vector tokenize returned, parsed the vector parse returned;   *)
(* mode "parser" starts from a token vector handed to Parser::new.         *)
(***************************************************************************)
VARIABLES stack, program, idents, procs, frames, status, error, output,
          mode, code, nlines, exited, bound, lexed, parsed

vars == << stack, program, idents, procs, frames, status, error, output,
           mode, code, nlines, exited, bound, lexed, parsed >>

EmptyMap == [i \in {} |-> Bool(FALSE)]

\* a line of stdout: println!("{val}") or println!("{e}")
OutVal(v) == [text |-> Display(v), err |-> NoError]
OutErr(e) == [text |-> <<>>, err |-> e]

Frame(stmts, role, k) ==
    [stmts |-> stmts, pc |-> 1, role |-> role, k |-> k, evals |-> <<>>, ran |-> <<>>]

Top == frames[Len(frames)]
Parent == frames[Len(frames) - 1]
AtStatement == status = "running" /\ frames # <<>> /\ Top.pc <= Len(Top.stmts)
AtEnd(role) == status = "running" /\ frames # <<>> /\ Top.pc > Len(Top.stmts) /\ Top.role = role
Cur == Top.stmts[Top.pc]
At(type) == AtStatement /\ Cur.type = type
\* the If or While statement whose condition or body the top frame iterates
Owner == Parent.stmts[Parent.pc]

Pop(s) == SubSeq(s, 1, Len(s) - 1)
Peek(s) == s[Len(s)]

\* the enclosing for loop takes the next statement
Advance(fs) ==
    [fs EXCEPT ![Len(fs)].pc = @ + 1, ![Len(fs)].evals = <<>>, ![Len(fs)].ran = <<>>]

\* a nested statement list is exhausted: back in the caller, Ok(())
Return(fs) == Advance(Pop(fs))

\* an error that ends the innermost statement list only
UnwindOne(fs) == IF Len(fs) <= 1 THEN <<>> ELSE Advance(SubSeq(fs, 1, Len(fs) - 1))

\* `?` and `return Err(..)`: every enclosing interpret_statement returns the error
Unwind(fs) == <<>>

\* interpreter/mod.rs:19-23
New(prog) ==
    IF prog # <<>> /\ prog[Len(prog)] = Empty THEN prog ELSE Append(prog, Empty)

\* a statement completed with Ok(())
Continue ==
    /\ frames' = Advance(frames)
    /\ UNCHANGED << status, error >>

\* a statement returned Err(e)
Fail(e) ==
    /\ frames' = Unwind(frames)
    /\ status' = IF Unwind(frames) = <<>> THEN "error" ELSE "running"
    /\ error' = e

\* the thread panicked: the process is gone
Abort ==
    /\ frames' = <<>>
    /\ status' = "panic"
    /\ UNCHANGED error

\* interpreter/mod.rs:45
PushLiteral ==
    /\ At("Push") /\ Cur.value.tag = "Literal"
    /\ Len(stack) < MaxStack
    /\ stack' = Append(stack, Cur.value.lit)
    /\ Continue
    /\ UNCHANGED << program, idents, procs, output, mode, code, nlines, exited, bound, lexed, parsed >>

\* interpreter/mod.rs:46-52
PushIdent ==
    /\ At("Push") /\ Cur.value.tag = "Ident"
    /\ Len(stack) < MaxStack
    /\ IF Cur.value.ident \in DOMAIN idents
       THEN /\ stack' = Append(stack, idents[Cur.value.ident])
            /\ Continue
       ELSE /\ Fail(IdentDoesNotExist(Cur.value.ident))
            /\ UNCHANGED stack
    /\ UNCHANGED << program, idents, procs, output, mode, code, nlines, exited, bound, lexed, parsed >>

\* interpreter/mod.rs:54-58
SingleAction(o) ==
    CASE o = "Print" -> "Printing" [] o = "Dup" -> "Duping" [] o = "Drop" -> "Dropping"

\* a Dup that pushes the popped value back once
SingleStackOnce(o, rest, val) ==
    CASE o = "Print" -> rest
      [] o = "Dup" -> Append(rest, val)
      [] o = "Drop" -> rest

\* interpreter/mod.rs:66-73: the stack after the operation, val already popped
SingleStack(o, rest, val) ==
    CASE o = "Print" -> rest
      [] o = "Dup" -> rest \o << val, val >>
      [] o = "Drop" -> rest

\* interpreter/mod.rs:53-74
SingleOp ==
    /\ At("SingleOperation")
    /\ Cur.op = "Dup" => Len(stack) < MaxStack
    /\ IF stack = <<>>
       THEN /\ Fail(InvalidStackAmount(SingleAction(Cur.op), 1))
            /\ UNCHANGED << stack, output >>
       ELSE /\ stack' = SingleStack(Cur.op, Pop(stack), Peek(stack))
            /\ output' = IF Cur.op = "Print" THEN Append(output, OutVal(Peek(stack))) ELSE output
            /\ Continue
    /\ UNCHANGED << program, idents, procs, mode, code, nlines, exited, bound, lexed, parsed >>

\* interpreter/mod.rs:76-84
DoubleAction(o) ==
    CASE o = "Add" -> "Addition"
      [] o = "Sub" -> "Subtraction"
      [] o = "Mul" -> "Multiplication"
      [] o = "Div" -> "Division"
      [] o = "Swap" -> "Swapping"
      [] o = "Mod" -> "Modulo"
      [] OTHER -> "Comparison"

\* a swap that pushes the second operand twice
DoubleResultSecond(o, first, second) ==
    CASE o = "Add" -> Add(first, second)
      [] o = "Sub" -> Sub(first, second)
      [] o = "Mul" -> Mul(first, second)
      [] o = "Div" -> Div(first, second)
      [] o = "Mod" -> Rem(first, second)
      [] o = "Swap" -> Ok(second)
      [] o = "GT" -> Ok(Bool(PartialCmp(first, second) = "Greater"))
      [] o = "GTEq" -> Ok(Bool(PartialCmp(first, second) \in {"Greater", "Equal"}))
      [] o = "LT" -> Ok(Bool(PartialCmp(first, second) = "Less"))
      [] o = "LTEq" -> Ok(Bool(PartialCmp(first, second) \in {"Less", "Equal"}))
      [] o = "Eq" -> Ok(Bool(PartialEq(first, second)))
      [] o = "NotEq" -> Ok(Bool(~PartialEq(first, second)))

\* interpreter/mod.rs:105-118.  The match has no arm for And and Or.
DoubleResult(o, first, second) ==
    CASE o = "Add" -> Add(first, second)
      [] o = "Sub" -> Sub(first, second)
      [] o = "Mul" -> Mul(first, second)
      [] o = "Div" -> Div(first, second)
      [] o = "Mod" -> Rem(first, second)
      [] o = "Swap" -> Ok(first)
      [] o = "GT" -> Ok(Bool(PartialCmp(first, second) = "Greater"))
      [] o = "GTEq" -> Ok(Bool(PartialCmp(first, second) \in {"Greater", "Equal"}))
      [] o = "LT" -> Ok(Bool(PartialCmp(first, second) = "Less"))
      [] o = "LTEq" -> Ok(Bool(PartialCmp(first, second) \in {"Less", "Equal"}))
      [] o = "Eq" -> Ok(Bool(PartialEq(first, second)))
      [] o = "NotEq" -> Ok(Bool(~PartialEq(first, second)))

\* a failed pop that leaves the one value it popped off the stack
UnderflowStackDropped(s) == IF s = <<>> THEN s ELSE Pop(s)

\* interpreter/mod.rs:86-99: the stack a failed pop of the operands leaves
UnderflowStack(s) == IF s = <<>> THEN s ELSE Append(Pop(s), Peek(s))

\* an operation whose result also replaces the value below its operands
DoubleStackBelow(o, rest, first, second, res) ==
    LET base == IF o = "Swap" THEN Append(rest, second) ELSE rest
    IN  CASE res.tag = "Ok" ->
               (IF o # "Swap" /\ rest # <<>> THEN Append(Pop(rest), res.val)
                ELSE Append(base, res.val))
          [] res.tag = "Err" -> base \o << first, second >>
          [] res.tag = "Panic" -> base

\* a failed operation that pushes its operands back second first
DoubleStackReversed(o, rest, first, second, res) ==
    LET base == IF o = "Swap" THEN Append(rest, second) ELSE rest
    IN  CASE res.tag = "Ok" -> Append(base, res.val)
          [] res.tag = "Err" -> base \o << second, first >>
          [] res.tag = "Panic" -> base

\* interpreter/mod.rs:101-103 and 120-127: the stack after the operation,
\* rest being the stack below the two operands
DoubleStack(o, rest, first, second, res) ==
    LET base == IF o = "Swap" THEN Append(rest, second) ELSE rest
    IN  CASE res.tag = "Ok" -> Append(base, res.val)
          [] res.tag = "Err" -> base \o << first, second >>
          [] res.tag = "Panic" -> base

\* interpreter/mod.rs:75-128
DoubleOp ==
    /\ At("DoubleOperation")
    /\ IF Len(stack) < 2
       THEN /\ stack' = UnderflowStack(stack)
            /\ Fail(InvalidStackAmount(DoubleAction(Cur.op), 2))
       ELSE \E res \in { DoubleResult(Cur.op, stack[Len(stack) - 1], stack[Len(stack)]) } :
                /\ stack' = DoubleStack(Cur.op, SubSeq(stack, 1, Len(stack) - 2),
                                        stack[Len(stack) - 1], stack[Len(stack)], res)
                /\ CASE res.tag = "Ok" -> Continue
                     [] res.tag = "Err" -> Fail(res.err)
                     [] res.tag = "Panic" -> Abort
    /\ UNCHANGED << program, idents, procs, output, mode, code, nlines, exited, bound, lexed, parsed >>

\* HashMap::insert and HashMap::remove
Insert(map, key, val) == [k \in DOMAIN map \cup {key} |-> IF k = key THEN val ELSE map[k]]
Remove(map, key) == [k \in DOMAIN map \ {key} |-> map[k]]

\* a Bind that leaves the procedure of the same name in place
BindProcsKept(ps, ident) == ps

\* a Bind that keeps the value a name is already bound to
BindIdentsFirst(ids, ident, val) == IF ident \in DOMAIN ids THEN ids ELSE Insert(ids, ident, val)

\* interpreter/mod.rs:136-142
BindIdents(ids, ident, val) == Insert(ids, ident, val)
BindProcs(ps, ident) == IF ident \in DOMAIN ps THEN Remove(ps, ident) ELSE ps

\* interpreter/mod.rs:129-143
BindStmt ==
    /\ At("Bind")
    /\ IF stack = <<>>
       THEN /\ Fail(InvalidStackAmount("Binding", 1))
            /\ UNCHANGED << stack, idents, procs, bound >>
       ELSE /\ stack' = Pop(stack)
            /\ idents' = BindIdents(idents, Cur.ident, Peek(stack))
            /\ procs' = BindProcs(procs, Cur.ident)
            /\ bound' = [n \in DOMAIN bound \cup { Cur.ident } |->
                            IF n = Cur.ident THEN Peek(stack) ELSE bound[n]]
            /\ Continue
    /\ UNCHANGED << program, output, mode, code, nlines, exited, lexed, parsed >>

\* interpreter/mod.rs:211-215
ProcedureProcs(ps, ident, statements) == Insert(ps, ident, statements)
ProcedureIdents(ids, ident) == IF ident \in DOMAIN ids THEN Remove(ids, ident) ELSE ids

\* interpreter/mod.rs:210-216
ProcedureStmt ==
    /\ At("Procedure")
    /\ procs' = ProcedureProcs(procs, Cur.ident, Cur.body)
    /\ idents' = ProcedureIdents(idents, Cur.ident)
    /\ Continue
    /\ UNCHANGED << stack, program, output, mode, code, nlines, exited, lexed, parsed >>
    /\ bound' = [n \in DOMAIN bound \ { Cur.ident } |-> bound[n]]

\* interpreter/mod.rs:226
EmptyStmt ==
    /\ At("Empty")
    /\ Continue
    /\ UNCHANGED << stack, program, idents, procs, output, mode, code, nlines, exited, bound, lexed, parsed >>

NotBool == "If statement expects boolean value on top of stack"
WhileNotBool == "While statement expects boolean value on top of stack"

\* a condition check that takes any value
HasAny(s) == s # <<>>

\* `if let Some(Literal::Bool(b)) = self.stack.pop()`  (lines 149, 167, 194)
HasBool(s) == s # <<>> /\ Peek(s).kind = "Bool"

\* a failed check that leaves the value it looked at on the stack
AfterPopRestored(s) == IF HasBool(s) THEN Pop(s) ELSE s

\* `self.stack.pop()` of the same lines: the stack the check leaves
AfterPop(s) == IF s = <<>> THEN s ELSE Pop(s)

\* an If that runs its else as soon as the if condition is false
IfBranchSkipsElifs(s, k, val) ==
    IF val
    THEN (IF k = 0 THEN Frame(s.body, "if_then", 0) ELSE Frame(s.elifs[k][2], "elif_body", k))
    ELSE Frame(s.els, "else", 0)

\* interpreter/mod.rs:157-188: the statement list run after condition k of
\* the If statement s popped val (k = 0 is the if, k >= 1 the k-th elif)
IfBranch(s, k, val) ==
    IF val
    THEN (IF k = 0 THEN Frame(s.body, "if_then", 0) ELSE Frame(s.elifs[k][2], "elif_body", k))
    ELSE IF k < Len(s.elifs) THEN Frame(s.elifs[k + 1][1], "elif_cond", k + 1)
    ELSE Frame(s.els, "else", 0)

\* the branch a body frame stands for: 0 then, k the k-th elif, -1 else
BranchOf(f) == IF f.role = "else" THEN -1 ELSE f.k

IsBody(f) == f.role \in {"if_then", "elif_body", "else"}

\* the frames once a condition of the If popped val
IfFrames(fs, val) ==
    LET n == Len(fs)
        next == IfBranch(fs[n - 1].stmts[fs[n - 1].pc], fs[n].k, val)
    IN  [fs EXCEPT ![n] = next,
                   ![n - 1].evals = Append(@, val),
                   ![n - 1].ran = IF IsBody(next) THEN Append(@, BranchOf(next)) ELSE @]

\* interpreter/mod.rs:144-147
IfStmt ==
    /\ At("If")
    /\ Len(frames) < MaxDepth
    /\ frames' = Append(frames, Frame(Cur.conds, "if_cond", 0))
    /\ UNCHANGED << stack, program, idents, procs, status, error, output, mode, code, nlines, exited, bound, lexed, parsed >>

\* interpreter/mod.rs:149-162
IfCondition ==
    /\ AtEnd("if_cond")
    /\ stack' = AfterPop(stack)
    /\ IF HasBool(stack)
       THEN /\ frames' = IfFrames(frames, Peek(stack).bool)
            /\ UNCHANGED << status, error >>
       ELSE Fail(InvalidOperation(NotBool))
    /\ UNCHANGED << program, idents, procs, output, mode, code, nlines, exited, bound, lexed, parsed >>

\* interpreter/mod.rs:163-182
ElifCondition ==
    /\ AtEnd("elif_cond")
    /\ stack' = AfterPop(stack)
    /\ IF HasBool(stack)
       THEN /\ frames' = IfFrames(frames, Peek(stack).bool)
            /\ UNCHANGED << status, error >>
       ELSE Fail(InvalidOperation(NotBool))
    /\ UNCHANGED << program, idents, procs, output, mode, code, nlines, exited, bound, lexed, parsed >>

\* interpreter/mod.rs:158-160, 177-180, 184-186: the body's for loop ends
IfDone ==
    /\ \/ AtEnd("if_then")
       \/ AtEnd("elif_body")
       \/ AtEnd("else")
    /\ frames' = Return(frames)
    /\ UNCHANGED << stack, program, idents, procs, status, error, output, mode, code, nlines, exited, bound, lexed, parsed >>

\* interpreter/mod.rs:190-193
WhileStmt ==
    /\ At("While")
    /\ Len(frames) < MaxDepth
    /\ frames' = Append(frames, Frame(Cur.conds, "while_cond", 0))
    /\ UNCHANGED << stack, program, idents, procs, status, error, output, mode, code, nlines, exited, bound, lexed, parsed >>

\* a While that runs its body when the condition is false
WhileFramesInverted(fs, val) ==
    LET n == Len(fs)
        s == fs[n - 1].stmts[fs[n - 1].pc]
    IN  IF ~val
        THEN [fs EXCEPT ![n] = Frame(s.body, "while_body", 0),
                        ![n - 1].evals = Append(@, val),
                        ![n - 1].ran = Append(@, Len(@) + 1)]
        ELSE Return(fs)

\* interpreter/mod.rs:202-208: the body when val, else break
WhileFrames(fs, val) ==
    LET n == Len(fs)
        s == fs[n - 1].stmts[fs[n - 1].pc]
    IN  IF val
        THEN [fs EXCEPT ![n] = Frame(s.body, "while_body", 0),
                        ![n - 1].evals = Append(@, val),
                        ![n - 1].ran = Append(@, Len(@) + 1)]
        ELSE Return(fs)

\* interpreter/mod.rs:194-208
WhileCondition ==
    /\ AtEnd("while_cond")
    /\ stack' = AfterPop(stack)
    /\ IF HasBool(stack)
       THEN /\ frames' = WhileFrames(frames, Peek(stack).bool)
            /\ exited' = IF Len(frames') < Len(frames)
                         THEN [evals |-> Append(Parent.evals, Peek(stack).bool), ran |-> Parent.ran]
                         ELSE exited
            /\ UNCHANGED << status, error >>
       ELSE /\ Fail(InvalidOperation(WhileNotBool))
            /\ UNCHANGED exited
    /\ UNCHANGED << program, idents, procs, output, mode, code, nlines, bound, lexed, parsed >>

\* interpreter/mod.rs:190, 203-205: the body's for loop ends, `loop` repeats
WhileRepeat ==
    /\ AtEnd("while_body")
    /\ Len(Parent.ran) < MaxIter
    /\ frames' = [frames EXCEPT ![Len(frames)] = Frame(Owner.conds, "while_cond", 0)]
    /\ UNCHANGED << stack, program, idents, procs, status, error, output, mode, code, nlines, exited, bound, lexed, parsed >>

\* a Call that stops after the statement of the body that redefines or binds
\* the name being run
CallBodyUntilRedefined(ps, ident) ==
    IF \E i \in 1 .. Len(ps[ident]) :
         ps[ident][i].type \in { "Procedure", "Bind" } /\ ps[ident][i].ident = ident
    THEN SubSeq(ps[ident], 1,
                CHOOSE i \in 1 .. Len(ps[ident]) :
                  /\ ps[ident][i].type \in { "Procedure", "Bind" } /\ ps[ident][i].ident = ident
                  /\ \A j \in 1 .. i - 1 :
                       ~(ps[ident][j].type \in { "Procedure", "Bind" } /\ ps[ident][j].ident = ident))
    ELSE ps[ident]

\* a Call that skips the first statement of the body
CallBodyRest(ps, ident) == IF ps[ident] = <<>> THEN <<>> ELSE Tail(ps[ident])

\* interpreter/mod.rs:218-221: the statements a Call iterates
CallBody(ps, ident) == ps[ident]

\* interpreter/mod.rs:217-225
CallStmt ==
    /\ At("Call")
    /\ Len(frames) < MaxDepth
    /\ IF Cur.ident \in DOMAIN procs
       THEN /\ frames' = Append(frames, Frame(CallBody(procs, Cur.ident), "call", 0))
            /\ UNCHANGED << status, error >>
       ELSE Fail(ProcDoesNotExist(Cur.ident))
    /\ UNCHANGED << stack, program, idents, procs, output, mode, code, nlines, exited, bound, lexed, parsed >>

\* interpreter/mod.rs:219-221: the for loop over the body ends
CallDone ==
    /\ AtEnd("call")
    /\ frames' = Return(frames)
    /\ UNCHANGED << stack, program, idents, procs, status, error, output, mode, code, nlines, exited, bound, lexed, parsed >>

\* interpreter/mod.rs:36-37: interpret starts iterating a copy of the program
Interpret ==
    /\ status = "new"
    /\ frames' = << Frame(program, "interpret", 0) >>
    /\ status' = "running"
    /\ UNCHANGED << stack, program, idents, procs, error, output, mode, code, nlines, exited, bound, lexed, parsed >>

\* interpreter/mod.rs:37-40: the for loop ends, Ok(())
InterpretDone ==
    /\ AtEnd("interpret")
    /\ frames' = <<>>
    /\ status' = "done"
    /\ UNCHANGED << stack, program, idents, procs, error, output, mode, code, nlines, exited, bound, lexed, parsed >>

(***************************************************************************)
(* Lexer  (lexer/mod.rs).  source is the character sequence with its       *)
(* terminating '\0'; a cursor p is current_pos + 1 and source[p] is        *)
(* current_char.                                                           *)
(***************************************************************************)
NUL == "NUL"
Digits == { "0", "1", "2", "3", "4", "5", "6", "7", "8", "9" }
Letters ==
    { "A", "B", "Z", "a", "b", "c", "d", "e", "f", "g", "h", "i", "j", "k", "l", "m",
      "n", "o", "p", "q", "r", "s", "t", "u", "v", "w", "x", "y", "z" }
\* char::is_whitespace, char::is_numeric, char::is_alphanumeric
Whitespace == { " ", "\n" }
Numeric == Digits \cup { "SUP2" }
Alphanumeric == Letters \cup Numeric

\* lexer/mod.rs:11-29
KEYWORDS ==
    [ k \in { "true", "false", "print", "dup", "swap", "drop", "bind", "if", "elif",
              "else", "while", "proc", "call", "do", "end" } |->
        CASE k = "true" -> "Bool"    [] k = "false" -> "Bool"
          [] k = "print" -> "Print"  [] k = "dup" -> "Dup"
          [] k = "swap" -> "Swap"    [] k = "drop" -> "Drop"
          [] k = "bind" -> "Bind"    [] k = "if" -> "If"
          [] k = "elif" -> "Elif"    [] k = "else" -> "Else"
          [] k = "while" -> "While"  [] k = "proc" -> "Proc"
          [] k = "call" -> "Call"    [] k = "do" -> "Do"
          [] k = "end" -> "End" ]

\* token.rs:9-31
None == [some |-> FALSE, lit |-> Bool(FALSE)]
Some(l) == [some |-> TRUE, lit |-> l]
Token(token_type, lexeme, literal) ==
    [token_type |-> token_type, lexeme |-> lexeme, literal |-> literal]
TokenEof == Token("EOF", "", None)

\* lexer/mod.rs:39-51: the character vector of a Lexer
LexerNew(source) ==
    IF source # <<>> /\ source[Len(source)] = NUL THEN source ELSE Append(source, NUL)

\* lexer/mod.rs:76-85
LexNext(src, p) == IF p + 1 <= Len(src) THEN p + 1 ELSE p
LexPeek(src, p) == IF p + 1 <= Len(src) THEN src[p + 1] ELSE NUL

\* `while <current_char in set> { self.next() }`; the last character is '\0'
RECURSIVE SkipWhile(_, _, _)
SkipWhile(src, p, set) ==
    IF src[p] \in set /\ p < Len(src) THEN SkipWhile(src, p + 1, set) ELSE p

\* `while <current_char not in set> { self.next() }`
RECURSIVE SkipUntil(_, _, _)
SkipUntil(src, p, set) ==
    IF src[p] \notin set /\ p < Len(src) THEN SkipUntil(src, p + 1, set) ELSE p

\* one comment and the whitespace after it are skipped, not what follows
SkipBlanksOnce(src, p) ==
    IF src[p] = "/" /\ LexPeek(src, p) = "/"
    THEN SkipWhile(src, SkipUntil(src, LexNext(src, p), { "\n", NUL }), Whitespace)
    ELSE SkipWhile(src, p, Whitespace)

\* lexer/mod.rs:53-74 and 88: `while self.skip_comments() || self.skip_whitespace() {}`
RECURSIVE SkipBlanks(_, _)
SkipBlanks(src, p) ==
    IF src[p] = "/" /\ LexPeek(src, p) = "/"
    THEN SkipBlanks(src, SkipUntil(src, LexNext(src, p), { "\n", NUL }))
    ELSE IF src[p] \in Whitespace
    THEN SkipBlanks(src, SkipWhile(src, p, Whitespace))
    ELSE p

\* the value of a digit, and of a digit string read as a decimal integer
DigitVal(c) == CharCode(c) - CharCode("0")

RECURSIVE DecVal(_)
DecVal(s) == IF s = <<>> THEN 0 ELSE 10 * DecVal(Pop(s)) + DigitVal(Peek(s))

\* the index of the first c in s, or 0
RECURSIVE IndexOf(_, _, _)
IndexOf(s, c, i) == IF i > Len(s) THEN 0 ELSE IF s[i] = c THEN i ELSE IndexOf(s, c, i + 1)

\* str::parse::<f32> of the text the number arm collects (digits, at most
\* one '.'): an error when a character is no ASCII digit
ParseF32(text) ==
    LET dot == IndexOf(text, ".", 1)
        int == IF dot = 0 THEN text ELSE SubSeq(text, 1, dot - 1)
        frac == IF dot = 0 THEN <<>> ELSE SubSeq(text, dot + 1, Len(text))
    IN  IF \E i \in 1..Len(text) : text[i] \notin Digits \cup { "." }
        THEN [ok |-> FALSE, val |-> NaN]
        ELSE [ok |-> TRUE, val |-> F32(DecVal(int \o frac), Pow10(Len(frac)))]

\* the outcome of next_token: a token and the cursor after it, an error, or a panic
LexOk(tok, p) == [tag |-> "Ok", tok |-> tok, err |-> NoError, pos |-> p]
LexErr(e, p)  == [tag |-> "Err", tok |-> TokenEof, err |-> e, pos |-> p]
LexPanic(p)   == [tag |-> "Panic", tok |-> TokenEof, err |-> NoError, pos |-> p]

\* lexer/mod.rs:111-162: the arms of '>', '<', '=' and '!'.  q is the cursor
\* after the operator character.
LexCompare(src, p) ==
    LET c == src[p]
        q == LexNext(src, p)
        d == src[q]
    IN  CASE c = ">" ->
               IF d = "=" THEN LexOk(Token("GTEq", ">=", None), LexNext(src, q))
               ELSE IF d \in Whitespace \/ d = NUL THEN LexOk(Token("GT", ">", None), q)
               ELSE LexErr(InvalidString(">" \o d, q - 1), q)
          [] c = "<" ->
               IF d = "=" THEN LexOk(Token("LTEq", "<=", None), LexNext(src, q))
               ELSE IF d \in Whitespace \/ d = NUL THEN LexOk(Token("LT", "<", None), q)
               ELSE LexErr(InvalidString("<" \o d, q - 1 - 1), q)
          [] c = "=" ->
               IF d = "=" THEN LexOk(Token("Eq", "==", None), LexNext(src, q))
               ELSE LexErr(InvalidString("=" \o d, q - 1 - 1), q)
          [] c = "!" ->
               IF d = "=" THEN LexOk(Token("NotEq", "!=", None), LexNext(src, q))
               ELSE LexErr(InvalidString("!" \o d, q - 1 - 1), q)

\* lexer/mod.rs:163-188
NumberEnd(src, q1) ==
    IF src[q1] = "." THEN SkipWhile(src, LexNext(src, q1), Numeric) ELSE q1

NumberToken(text, num, q) ==
    IF num.ok THEN LexOk(Token("Number", Text(text), Some(Number(num.val))), q)
    ELSE LexPanic(q)

LexNumber(src, p) ==
    With(NumberEnd(src, SkipWhile(src, p, Numeric)),
         LAMBDA q : NumberToken(SubSeq(src, p, q - 1), ParseF32(SubSeq(src, p, q - 1)), q))

\* a string that the end of the input closes
StringTokenToEnd(src, start, q) ==
    LexOk(Token("String", Text(SubSeq(src, start - 1, q)),
                Some(String(SubSeq(src, start, q - 1)))),
          LexNext(src, q))

\* lexer/mod.rs:189-215
StringToken(src, start, q) ==
    IF src[q] = NUL THEN LexErr(StringNotTerminated, q)
    ELSE LexOk(Token("String", Text(SubSeq(src, start - 1, q)),
                     Some(String(SubSeq(src, start, q - 1)))),
               LexNext(src, q))

LexString(src, p) ==
    StringToken(src, LexNext(src, p), SkipUntil(src, LexNext(src, p), { "\"", NUL }))

\* lexer/mod.rs:216-235
WordToken(text, q) ==
    LexOk(Token(IF text \in DOMAIN KEYWORDS THEN KEYWORDS[text] ELSE "Ident",
                text,
                CASE text = "true" -> Some(Bool(TRUE))
                  [] text = "false" -> Some(Bool(FALSE))
                  [] OTHER -> None),
          q)

LexWord(src, p) ==
    With(SkipWhile(src, p, Alphanumeric \cup { "_" }),
         LAMBDA q : WordToken(Text(SubSeq(src, p, q - 1)), q))

\* lexer/mod.rs:87-242
TokenAt(src, p) ==
    LET c == src[p]
    IN  CASE c = "+" -> LexOk(Token("Plus", "+", None), LexNext(src, p))
          [] c = "-" -> LexOk(Token("Minus", "-", None), LexNext(src, p))
          [] c = "*" -> LexOk(Token("Asterisk", "*", None), LexNext(src, p))
          [] c = "/" -> LexOk(Token("Slash", "/", None), LexNext(src, p))
          [] c = "%" -> LexOk(Token("Percent", "%", None), LexNext(src, p))
          [] c \in { ">", "<", "=", "!" } -> LexCompare(src, p)
          [] c \in Digits -> LexNumber(src, p)
          [] c = "\"" -> LexString(src, p)
          [] c \in Letters -> LexWord(src, p)
          [] c = NUL -> LexOk(TokenEof, p)
          [] OTHER -> LexErr(InvalidString(c, p - 1), p)

NextToken(src, p0) == TokenAt(src, SkipBlanks(src, p0))

\* the outcome of tokenize
TokensOk(ts) == [tag |-> "Ok", tokens |-> ts, err |-> NoError]
TokensErr(e) == [tag |-> "Err", tokens |-> <<>>, err |-> e]
TokensPanic  == [tag |-> "Panic", tokens |-> <<>>, err |-> NoError]

\* lexer/mod.rs:247-249: the loop of tokenize
RECURSIVE TokenizeFrom(_, _, _)
TokenizeFrom(src, p, tokens) ==
    IF src[p] = NUL THEN TokensOk(tokens)
    ELSE With(NextToken(src, p),
              LAMBDA r : CASE r.tag = "Ok" -> TokenizeFrom(src, r.pos, Append(tokens, r.tok))
                           [] r.tag = "Err" -> TokensErr(r.err)
                           [] r.tag = "Panic" -> TokensPanic)

\* lexer/mod.rs:39-51 and 244-252: Lexer::new(source).tokenize()
Tokenize(source) == TokenizeFrom(LexerNew(source), 1, <<>>)

(***************************************************************************)
(* Parser  (parser/mod.rs).  tokens is the token vector ending in EOF; a   *)
(* cursor p is current_pos + 1, tokens[p] is current_token, and            *)
(* previous_token is the token before it (the first token at the start).   *)
(***************************************************************************)
\* parser/mod.rs:13-27
DOUBLE_OPERATIONS ==
    [ t \in { "Plus", "Minus", "Asterisk", "Slash", "GT", "GTEq", "LT", "LTEq",
              "Eq", "NotEq", "Swap" } |->
        CASE t = "Plus" -> "Add"      [] t = "Minus" -> "Sub"
          [] t = "Asterisk" -> "Mul"  [] t = "Slash" -> "Div"
          [] t = "GT" -> "GT"         [] t = "GTEq" -> "GTEq"
          [] t = "LT" -> "LT"         [] t = "LTEq" -> "LTEq"
          [] t = "Eq" -> "Eq"         [] t = "NotEq" -> "NotEq"
          [] t = "Swap" -> "Swap" ]

\* parser/mod.rs:28-34
SINGLE_OPERATIONS ==
    [ t \in { "Print", "Dup", "Drop" } |->
        CASE t = "Print" -> "Print" [] t = "Dup" -> "Dup" [] t = "Drop" -> "Drop" ]

\* a Parser whose token vector always gets an EOF appended
ParserNewPush(tokens) == Append(tokens, TokenEof)

\* parser/mod.rs:45-49: the token vector of a Parser
ParserNew(tokens) ==
    IF tokens # <<>> /\ tokens[Len(tokens)] = TokenEof THEN tokens ELSE Append(tokens, TokenEof)

\* parser/mod.rs:60-66
ParserNext(ts, p) == IF p + 1 <= Len(ts) THEN p + 1 ELSE p

\* parser/mod.rs:68-70
CheckToken(ts, p, tt) == ts[p].token_type = tt

\* previous_token at cursor p
PreviousToken(ts, p) == IF p = 1 THEN ts[1] ELSE ts[p - 1]

\* the outcome of statement: a Statement (or a statement list) and the
\* cursor after it, or an error
ParseOk(st, p)  == [tag |-> "Ok", stmt |-> st, err |-> NoError, pos |-> p]
ParseErr(e, p)  == [tag |-> "Err", stmt |-> <<>>, err |-> e, pos |-> p]

\* parser/mod.rs:72-83
MatchToken(ts, p, tt) ==
    IF CheckToken(ts, p, tt) THEN ParseOk(ts[p], ParserNext(ts, p))
    ELSE ParseErr(NonMatchingToken(ts[p].token_type, { tt }), p)

\* parser/mod.rs:196-217
NoStatement(ts, p) ==
    ParseErr(NonMatchingToken(ts[p].token_type,
                              DOMAIN SINGLE_OPERATIONS \cup DOMAIN DOUBLE_OPERATIONS
                                \cup { "Number", "Bool", "String", "Bind", "Ident", "If" }), p)

RECURSIVE ParseStatement(_, _)
RECURSIVE ParseUntil(_, _, _, _, _)
RECURSIVE ParseElse(_, _, _)

\* parser/mod.rs:120-131, 134-145, 167-178, 181-192: statements up to a
\* token of stop; end-of-input inside them is reported as missing expect
ParseUntil(ts, p, stop, expect, acc) ==
    IF ts[p].token_type \in stop THEN ParseOk(acc, p)
    ELSE With(ParseStatement(ts, p),
              LAMBDA r :
                IF r.tag = "Ok" THEN ParseUntil(ts, r.pos, stop, expect, Append(acc, r.stmt))
                ELSE IF CheckToken(ts, r.pos, "EOF")
                     THEN ParseErr(NonMatchingToken("EOF", { expect }), r.pos)
                ELSE r)

\* parser/mod.rs:149-154: the statements after else; the loop also stops
\* when the statement just parsed ended in an EndIf
ParseElse(ts, p, acc) ==
    IF CheckToken(ts, p, "EndIf") THEN ParseOk(acc, p)
    ELSE With(ParseStatement(ts, p),
              LAMBDA r :
                IF r.tag # "Ok" THEN r
                ELSE IF PreviousToken(ts, r.pos).token_type = "EndIf"
                     THEN ParseOk(Append(acc, r.stmt), r.pos)
                ELSE ParseElse(ts, r.pos, Append(acc, r.stmt)))

\* parser/mod.rs:117-163.  The statement built has no elif list; an absent
\* else (None) is the empty list.
\* parser/mod.rs:146-163: c and b are the conditions and the body parsed
IfElse(ts, c, b) ==
    IF CheckToken(ts, b.pos, "Else")
    THEN With(ParseElse(ts, ParserNext(ts, b.pos), <<>>),
              LAMBDA e :
                IF e.tag # "Ok" THEN e
                ELSE ParseOk(If(c.stmt, b.stmt, <<>>, e.stmt),
                             IF PreviousToken(ts, e.pos).token_type # "EndIf"
                             THEN ParserNext(ts, e.pos) ELSE e.pos))
    ELSE ParseOk(If(c.stmt, b.stmt, <<>>, <<>>), ParserNext(ts, b.pos))

\* parser/mod.rs:132-145: c is the conditions parsed
IfBody(ts, c) ==
    With(ParseUntil(ts, ParserNext(ts, c.pos), { "EndIf", "Else" }, "EndIf", <<>>),
         LAMBDA b : IF b.tag # "Ok" THEN b ELSE IfElse(ts, c, b))

ParseIf(ts, p0) ==
    With(ParseUntil(ts, ParserNext(ts, p0), { "Do" }, "Do", <<>>),
         LAMBDA c : IF c.tag # "Ok" THEN c ELSE IfBody(ts, c))

\* parser/mod.rs:164-194
\* parser/mod.rs:179-194: c is the conditions parsed
WhileBody(ts, c) ==
    With(ParseUntil(ts, ParserNext(ts, c.pos), { "EndWhile" }, "EndWhile", <<>>),
         LAMBDA b : IF b.tag # "Ok" THEN b
                    ELSE ParseOk(While(c.stmt, b.stmt), ParserNext(ts, b.pos)))

ParseWhile(ts, p0) ==
    With(ParseUntil(ts, ParserNext(ts, p0), { "Do" }, "Do", <<>>),
         LAMBDA c : IF c.tag # "Ok" THEN c ELSE WhileBody(ts, c))

\* parser/mod.rs:96-219
ParseStatement(ts, p) ==
    LET tt == ts[p].token_type
    IN  IF tt \in DOMAIN SINGLE_OPERATIONS
        THEN ParseOk(SingleOperation(SINGLE_OPERATIONS[tt]), ParserNext(ts, p))
        ELSE IF tt \in DOMAIN DOUBLE_OPERATIONS
        THEN ParseOk(DoubleOperation(DOUBLE_OPERATIONS[tt]), ParserNext(ts, p))
        ELSE IF tt \in { "Number", "Bool", "String" }
        THEN ParseOk(Push(ValueLiteral(ts[p].literal.lit)), ParserNext(ts, p))
        ELSE IF tt = "Bind"
        THEN With(MatchToken(ts, ParserNext(ts, p), "Ident"),
                  LAMBDA i : IF i.tag = "Ok" THEN ParseOk(Bind(i.stmt.lexeme), i.pos) ELSE i)
        ELSE IF tt = "Ident"
        THEN ParseOk(Push(ValueIdent(ts[p].lexeme)), ParserNext(ts, p))
        ELSE IF tt = "If" THEN ParseIf(ts, p)
        ELSE IF tt = "While" THEN ParseWhile(ts, p)
        ELSE NoStatement(ts, p)

\* parser/mod.rs:88-90: the loop of parse
RECURSIVE ParseFrom(_, _, _)
ParseFrom(ts, p, ast) ==
    IF CheckToken(ts, p, "EOF") THEN ParseOk(ast, p)
    ELSE With(ParseStatement(ts, p),
              LAMBDA r : IF r.tag = "Ok" THEN ParseFrom(ts, r.pos, Append(ast, r.stmt)) ELSE r)

\* a parse that returns the statements alone
ParseBare(tokens) == ParseFrom(ParserNew(tokens), 1, <<>>)

\* parser/mod.rs:45-58 and 85-94: Parser::new(tokens).parse()
Parse(tokens) ==
    With(ParseFrom(ParserNew(tokens), 1, <<>>),
         LAMBDA r : IF r.tag = "Ok" THEN ParseOk(Append(r.stmt, Empty), r.pos) ELSE r)

(***************************************************************************)
(* Interpreter::repl  (interpreter/mod.rs:232-272).  One ReplLine is one   *)
(* pass of the loop up to the call of interpret; ReplResult is the rest of *)
(* the pass, after interpret returned.  The banner and the prompts are     *)
(* left out of output.                                                     *)
(***************************************************************************)
\* str::trim
RECURSIVE TrimStart(_)
TrimStart(s) == IF s # <<>> /\ Head(s) \in Whitespace THEN TrimStart(Tail(s)) ELSE s

RECURSIVE TrimEnd(_)
TrimEnd(s) == IF s # <<>> /\ Peek(s) \in Whitespace THEN TrimEnd(Pop(s)) ELSE s

Trim(s) == TrimEnd(TrimStart(s))

IsQuit(line) == Trim(line) = << "e", "x", "i", "t" >> \/ Trim(line) = << "q", "u", "i", "t" >>

\* interpreter/mod.rs:249-262: Lexer::new(&code).tokenize(), then
\* Parser::new(tokens).parse(): the ast, the error printed, or a panic
Compiled(a) ==
    IF a.tag = "Ok" THEN [tag |-> "Ok", ast |-> a.stmt, err |-> NoError]
    ELSE [tag |-> "Err", ast |-> <<>>, err |-> a.err]

Compile(line) ==
    With(Tokenize(line),
         LAMBDA t : IF t.tag # "Ok" THEN [tag |-> t.tag, ast |-> <<>>, err |-> t.err]
                    ELSE Compiled(Parse(t.tokens)))

\* interpreter/mod.rs:264-266: the interpreter that runs the parsed line
ReplLoad(ast) ==
    [program |-> ast, stack |-> stack, idents |-> idents, procs |-> procs]

\* interpreter/mod.rs:234-268
ReplLine(line) ==
    /\ mode = "repl" /\ status = "prompt"
    /\ nlines < MaxLines
    /\ nlines' = nlines + 1
    /\ code' = line
    /\ IF IsQuit(line)
       THEN /\ status' = "exited"
            /\ UNCHANGED << stack, program, idents, procs, frames, error, output >>
       ELSE \E c \in { Compile(line) } :
                CASE c.tag = "Panic" ->
                       /\ status' = "panic"
                       /\ UNCHANGED << stack, program, idents, procs, frames, error, output >>
                  [] c.tag = "Err" ->
                       /\ output' = Append(output, OutErr(c.err))
                       /\ error' = c.err
                       /\ UNCHANGED << stack, program, idents, procs, frames, status >>
                  [] c.tag = "Ok" ->
                       /\ \E i \in { ReplLoad(c.ast) } :
                            /\ program' = i.program
                            /\ stack' = i.stack
                            /\ idents' = i.idents
                            /\ procs' = i.procs
                       /\ frames' = << Frame(c.ast, "interpret", 0) >>
                       /\ status' = "running"
                       /\ error' = NoError
                       /\ UNCHANGED output
    /\ UNCHANGED << mode, exited, bound, lexed, parsed >>

\* interpreter/mod.rs:268-270
ReplResult ==
    /\ mode = "repl" /\ status \in { "done", "error" }
    /\ output' = IF status = "error" THEN Append(output, OutErr(error)) ELSE output
    /\ status' = "prompt"
    /\ UNCHANGED << stack, program, idents, procs, frames, error, mode, code, nlines, exited, bound, lexed, parsed >>

(***************************************************************************)
(* main  (main.rs:18-26): the source file is tokenized, parsed and run;    *)
(* the first error ends the process.                                       *)
(***************************************************************************)
\* main.rs:24: Lexer::new(&file_contents).tokenize()?
Tokenise ==
    /\ mode = "file" /\ status = "source"
    /\ \E t \in { Tokenize(code) } :
         CASE t.tag = "Ok" -> lexed' = t.tokens /\ status' = "tokens" /\ UNCHANGED error
           [] t.tag = "Err" -> status' = "error" /\ error' = t.err /\ UNCHANGED lexed
           [] t.tag = "Panic" -> status' = "panic" /\ UNCHANGED << lexed, error >>
    /\ UNCHANGED << stack, program, idents, procs, frames, output, mode, code, nlines,
                    exited, bound, parsed >>

\* main.rs:25: Parser::new(tokens).parse()?
ParseTokens ==
    /\ mode \in { "file", "parser" } /\ status = "tokens"
    /\ \E r \in { Parse(lexed) } :
         IF r.tag = "Ok"
         THEN parsed' = r.stmt /\ status' = "parsed" /\ UNCHANGED error
         ELSE status' = "error" /\ error' = r.err /\ UNCHANGED parsed
    /\ UNCHANGED << stack, program, idents, procs, frames, output, mode, code, nlines,
                    exited, bound, lexed >>

\* main.rs:26 and interpreter/mod.rs:19-34: Interpreter::new(ast)
InterpreterNew ==
    /\ status = "parsed"
    /\ program' = New(parsed)
    /\ stack' = <<>>
    /\ idents' = EmptyMap
    /\ procs' = EmptyMap
    /\ status' = "new"
    /\ UNCHANGED << frames, error, output, mode, code, nlines, exited, bound, lexed, parsed >>

(***************************************************************************)
(* The inputs: the statement vectors handed to Interpreter::new and the    *)
(* lines typed at the prompt.                                              *)
(***************************************************************************)
Names == { "x", "p" }

Values ==
    { Num(0), Num(2), Number(F32(5, 2)), String(<<>>), String(<< "a" >>),
      String(<< "a", "b" >>), Bool(TRUE), Bool(FALSE) }

\* pushed only by the last statement of a list
Marker == String(<< "Z" >>)

\* one operator, with none, one or two operands below it
OperatorPrograms ==
    { << Op1(o), PushL(Marker) >> : o \in SingleOpType }
      \cup { << PushL(a), Op1(o), PushL(Marker) >> : a \in Values, o \in SingleOpType }
      \cup { << Op2(o), PushL(Marker) >> : o \in DoubleOpType }
      \cup { << PushL(a), Op2(o), PushL(Marker) >> : a \in Values, o \in DoubleOpType }
      \cup { << PushL(Num(7)), PushL(a), PushL(b), Op2(o), PushL(Marker) >> :
               a \in Values, b \in Values, o \in DoubleOpType \ { "And", "Or" } }

\* `==` and `!=` on NaN (0 0 /) and on infinity (2 0 /)
EqualityPrograms ==
    { << PushL(Num(a)), PushL(Num(0)), Op2("Div"), Op1("Dup"), Op2(o), PushL(Marker) >> :
        a \in { 0, 2 }, o \in { "Eq", "NotEq" } }

\* a unary operator with a value below its operand
BelowPrograms ==
    { << PushL(Num(7)), PushL(a), Op1(o), PushL(Marker) >> : a \in Values, o \in SingleOpType }

\* `7 a b swap swap`
SwapTwice(a, b) ==
    << PushL(Num(7)), PushL(a), PushL(b), Op2("Swap"), Op2("Swap"), PushL(Marker) >>
SwapPrograms == { SwapTwice(a, b) : a \in Values, b \in Values }

\* Bind, Procedure, Call and Push of an identifier, over the same names
NamePieces ==
    UNION { { << PushL(Num(2)), Bind(n) >>, << PushL(String(<< "a" >>)), Bind(n) >>,
              << Bind(n) >>, << Procedure(n, << PushL(Num(0)) >>) >>,
              << Call(n) >>, << PushI(n) >> } : n \in Names }

NameUses == UNION { { << Call(n) >>, << PushI(n) >> } : n \in Names }

NamePrograms ==
    { a \o b \o c \o d : a \in NamePieces, b \in NamePieces, c \in NamePieces, d \in NameUses }

\* `10 bind x proc p do x 1 + end call p print`
CallScenario ==
    << PushL(Num(10)), Bind("x"),
       Procedure("p", << PushI("x"), PushL(Num(1)), Op2("Add") >>),
       Call("p"), Op1("Print") >>

\* a body that pushes, binds and defines, and its caller using all three
CallEffects ==
    << PushL(Num(2)),
       Procedure("p", << PushL(Num(0)), Bind("x"), Procedure("q", << PushI("x") >>),
                         PushL(String(<< "a" >>)) >>),
       Call("p"), Call("q"), PushI("x") >>

\* a body that redefines, or unbinds, the procedure being run
CallRedefine ==
    << Procedure("p", << Procedure("p", << PushL(Num(2)) >>), PushL(Num(0)) >>),
       Call("p"), Call("p") >>

CallUnbind ==
    << Procedure("p", << PushL(Num(0)), Bind("p"), PushL(Num(2)) >>),
       Call("p"), Call("p"), PushL(Marker) >>

CallRecursive == << Procedure("p", << Call("p") >>), Call("p") >>

CallPrograms == { CallScenario, CallEffects, CallRedefine, CallUnbind, CallRecursive }

\* the condition lists: true, false, not a Bool, and nothing pushed
Conditions ==
    { << PushL(Bool(TRUE)) >>, << PushL(Bool(FALSE)) >>, << PushL(Num(2)) >>, <<>> }

BodyOf(k) == << PushL(Num(k)), PushL(Num(k)), Op2("Add") >>

ElifLists ==
    { <<>> }
      \cup { << << c, BodyOf(1) >> >> : c \in Conditions }
      \cup { << << c, BodyOf(1) >>, << d, BodyOf(2) >> >> : c \in Conditions, d \in Conditions }
      \cup { << << c, BodyOf(1) >>, << d, BodyOf(2) >>,
                << << PushL(Bool(TRUE)) >>, BodyOf(3) >> >> :
               c \in Conditions, d \in Conditions }

IfPrograms ==
    { << PushL(b), If(c, BodyOf(0), e, l), PushL(Marker) >> :
        b \in { Bool(TRUE), Bool(FALSE) }, c \in Conditions, e \in ElifLists,
        l \in { <<>>, BodyOf(4) } }

\* `0 while dup k < do 1 + end`
CountLoop(k) ==
    << PushL(Num(0)),
       While(<< Op1("Dup"), PushL(Num(k)), Op2("LT") >>, << PushL(Num(1)), Op2("Add") >>),
       PushL(Marker) >>

\* `true while do <body> true end`
Forever(body) ==
    << PushL(Bool(TRUE)), While(<<>>, body \o << PushL(Bool(TRUE)) >>), PushL(Marker) >>

WhilePrograms ==
    { CountLoop(k) : k \in 0 .. MaxIter - 1 }
      \cup { Forever(<<>>), Forever(<< PushL(Num(2)), Op1("Drop") >>) }
      \cup { << PushL(b), While(c, <<>>), PushL(Marker) >> :
               b \in { Bool(FALSE), Num(2) }, c \in Conditions \ { << PushL(Bool(TRUE)) >> } }
      \cup { << While(<< PushL(Bool(TRUE)) >>, << CountLoop(1)[2] >>) >> }

\* an if, an elif and a while whose condition leaves v on a 7, or nothing
ConditionPrograms ==
    { << PushL(Num(7)), If(<< PushL(v) >>, BodyOf(0), <<>>, BodyOf(4)), PushL(Marker) >> :
        v \in Values }
      \cup { << PushL(Num(7)),
                If(<< PushL(Bool(FALSE)) >>, BodyOf(0), << << << PushL(v) >>, BodyOf(1) >> >>,
                   BodyOf(4)),
                PushL(Marker) >> : v \in Values }
      \cup { << PushL(Num(7)), While(<< PushL(v) >>, BodyOf(0)), PushL(Marker) >> :
                v \in Values \ { Bool(TRUE) } }
      \cup { << PushL(Bool(TRUE)), While(<<>>, BodyOf(0)), PushL(Marker) >>,
             << While(<<>>, BodyOf(0)), PushL(Marker) >>,
             << If(<<>>, BodyOf(0), <<>>, BodyOf(4)), PushL(Marker) >>,
             << PushL(Bool(FALSE)), If(<<>>, BodyOf(0), << << <<>>, BodyOf(1) >> >>, BodyOf(4)),
                PushL(Marker) >> }

\* a statement that fails inside a body, with statements after it
FailingBodies ==
    { << Op2("Add"), PushL(Marker) >>,
      << Call("q"), PushL(Marker) >>,
      << PushI("q"), PushL(Marker) >>,
      << If(<<>>, <<>>, <<>>, <<>>), PushL(Marker) >>,
      << While(<< PushL(Num(2)) >>, <<>>), PushL(Marker) >> }

\* `2 0 while true do bind x end`
BindLoop ==
    << PushL(Num(2)), PushL(Num(0)), While(<< PushL(Bool(TRUE)) >>, << Bind("x") >>),
       PushL(Marker) >>

FailPrograms ==
    { << If(<< PushL(Bool(TRUE)) >>, f, <<>>, <<>>), PushL(Marker) >> : f \in FailingBodies }
      \cup { << If(<< PushL(Bool(FALSE)) >>, <<>>, << << << PushL(Bool(TRUE)) >>, f >> >>, <<>>),
                PushL(Marker) >> : f \in FailingBodies }
      \cup { << If(<< PushL(Bool(FALSE)) >>, <<>>, <<>>, f), PushL(Marker) >> : f \in FailingBodies }
      \cup { << While(<< PushL(Bool(TRUE)) >>, f), PushL(Marker) >> : f \in FailingBodies }
      \cup { << Procedure("p", f), Call("p"), PushL(Marker) >> : f \in FailingBodies }
      \cup { << Procedure("p", << While(<< PushL(Bool(TRUE)) >>, f), PushL(Marker) >>),
                If(<< PushL(Bool(TRUE)) >>, << Call("p"), PushL(Marker) >>, <<>>, <<>>),
                PushL(Marker) >> : f \in FailingBodies }
      \cup { BindLoop }

Programs ==
    OperatorPrograms \cup EqualityPrograms \cup SwapPrograms \cup BelowPrograms
      \cup ConditionPrograms
      \cup NamePrograms \cup CallPrograms
      \cup IfPrograms \cup WhilePrograms \cup FailPrograms

\* the lines typed at the prompt
Lines ==
    { << "1", " ", "2", "\n" >>,
      << "+", "\n" >>,
      << "2", " ", "b", "i", "n", "d", " ", "x", "\n" >>,
      << "x", " ", "p", "r", "i", "n", "t", "\n" >>,
      << "1", " ", "2", " ", "b", "i", "n", "d", " ", "x", " ", "+", "\n" >>,
      << "1", " ", "#", "\n" >>,
      << "1", " ", "b", "i", "n", "d", "\n" >>,
      << "1", "SUP2", "\n" >>,
      << "\n" >>,
      << " ", "q", "u", "i", "t", "\n" >>,
      << "e", "x", "i", "t", "\n" >> }

\* the characters of a text
Chars(s) == [i \in 1 .. Len(s) |-> SubSeq(s, i, i)]

\* `a b and print` and `a b or print`
LogicOperands == { "true", "false", "1" }
LogicSource(a, b, o) == Chars(a) \o << " " >> \o Chars(b) \o << " " >> \o Chars(o) \o Chars(" print")
LogicSources ==
    { LogicSource(a, b, o) : a \in LogicOperands, b \in LogicOperands, o \in { "and", "or" } }

\* the arithmetic scenarios
ArithmeticSources == { Chars("2 3 + print"), Chars("5 dup * print"), Chars("2 5 - print") }

\* the operators and built-ins the lexer knows, each a source of its own
OperatorWords ==
    { "+", "-", "*", "/", "%", ">", ">=", "<", "<=", "==", "!=", "swap", "print", "dup", "drop" }

\* if, while and proc blocks as the grammar writes them
IfElseSource == Chars("if 1 2 > do \"big\" else do \"small\" end print")
WhileSource == Chars("while false do 1 end 2 print")
ProcSource == Chars("proc p do 3 end call p print")
BlockSources == { IfElseSource, WhileSource, ProcSource }

\* texts that end right after their last lexical unit, and what may follow
\* it: whitespace or a comment
Units == { "", "1", "1 2 +", "\"a\"", "x", "//c\n>" }
Trailers == { "", " ", "\n", " //c", "//c", "//c\n " }
EndingSources == { Chars(u) \o Chars(t) : u \in Units, t \in Trailers }

\* a comparison character, at the start of the text or after `1 `, and
\* what follows it
Befores == { "", "1 " }
Compares == { ">", "<", "=", "!" }
Afters == { "", " 1", "=", "a", "<" }
CompareSource(pre, op, next) == Chars(pre) \o << op >> \o Chars(next)
CompareSources == { CompareSource(pre, op, next) : pre \in Befores, op \in Compares, next \in Afters }

\* a string literal is opened and the text ends before it is closed
OpenStringSources ==
    { Chars("\"abc"), Chars("\""), Chars("1 print \"abc"), Chars("\"a\" print \"b"),
      Chars("2 print \"a //c\n") }

\* comments: alone, after and between statements, in a string, after `>`
CommentSources ==
    { Chars("//c"), Chars("//c\n"), Chars("1//c"), Chars("1 //c\n2 +"), Chars("1//c\n2"),
      Chars("1 //c\n//c\n 2"), Chars("6 / 2 //c"), Chars("/ /"), Chars("\"a//b\" print //c\n"),
      Chars("1 2 >//c"), Chars("1 2 > //c") }

\* a string times 3, 0, 2.5, 0.5, -1, infinity and NaN
RepeatSources ==
    { Chars("\"ab\" 3 * print"), Chars("\"ab\" 0 * print"), Chars("\"ab\" 2.5 * print"),
      Chars("\"ab\" 0.5 * print"), Chars("\"ab\" 0 1 - * print"),
      Chars("\"ab\" 2 0 / * print"), Chars("\"\" 2 0 / * print"),
      Chars("\"ab\" 0 0 / * print") }

\* the texts of the source file
\* numbers ending in a dot, digit runs holding the numeric character U+00B2,
\* and a '\0' inside the text
NumberSources ==
    { Chars("1."), Chars("1. print"), Chars("12.5 print"), Chars("1.."), Chars("1.5.2"),
      << "1", "SUP2" >>, << "1", ".", "SUP2" >>, << "1", ".", "5", "SUP2", " " >>,
      << "SUP2" >>, << "1", " ", "NUL", "2" >>, << "NUL" >> }

Sources ==
    { <<>>, << "1" >>, << "1", " " >> } \cup LogicSources \cup ArithmeticSources
      \cup { Chars(w) : w \in OperatorWords \cup { "do" } }
      \cup BlockSources \cup EndingSources \cup CompareSources
      \cup OpenStringSources \cup CommentSources \cup RepeatSources \cup NumberSources

\* tokens as the parser reads them
Tk(token_type) == Token(token_type, "", None)
TkNumber == Token("Number", "1", Some(Num(1)))
TkBool(b) == Token("Bool", IF b THEN "true" ELSE "false", Some(Bool(b)))

\* an if or a while is opened and the input ends before its `do` or before
\* its terminator (in the last three a nested if is closed, the outer block
\* is not)
Unterminated ==
    { << Tk("If") >>,
      << Tk("If"), TkBool(TRUE) >>,
      << Tk("If"), TkBool(TRUE), Tk("Do") >>,
      << Tk("If"), TkBool(TRUE), Tk("Do"), TkNumber >>,
      << Tk("If"), TkBool(TRUE), Tk("Do"), TkNumber, Tk("Else") >>,
      << Tk("If"), TkBool(TRUE), Tk("Do"), TkNumber, Tk("Else"), TkNumber >>,
      << Tk("While") >>,
      << Tk("While"), TkBool(FALSE) >>,
      << Tk("While"), TkBool(FALSE), Tk("Do") >>,
      << Tk("While"), TkBool(FALSE), Tk("Do"), TkNumber >>,
      << Tk("If"), TkBool(TRUE), Tk("Do"), Tk("If"), TkBool(FALSE), Tk("Do"), Tk("EndIf") >>,
      << Tk("While"), TkBool(FALSE), Tk("Do"), Tk("If"), TkBool(FALSE), Tk("Do"), Tk("EndIf") >>,
      << Tk("If"), TkBool(FALSE), Tk("Do"), Tk("Else"),
         Tk("If"), TkBool(FALSE), Tk("Do"), Tk("EndIf") >> }

\* the same blocks, closed
Terminated ==
    { << Tk("If"), TkBool(TRUE), Tk("Do"), TkNumber, Tk("EndIf"), Tk("Print") >>,
      << Tk("If"), TkBool(FALSE), Tk("Do"), TkNumber, Tk("Else"), TkNumber, TkNumber,
         Tk("EndIf"), Tk("Print") >>,
      << Tk("While"), TkBool(FALSE), Tk("Do"), TkNumber, Tk("EndWhile"), TkNumber >>,
      << Tk("If"), TkBool(FALSE), Tk("Do"), Tk("Else"),
         Tk("If"), TkBool(FALSE), Tk("Do"), Tk("EndIf"), Tk("EndIf") >> }

\* the token vectors handed to Parser::new
TokenLists ==
    { <<>>, << TkNumber >>, << TkNumber, TokenEof >>, << Tk("EndIf") >> }
      \cup Unterminated \cup Terminated

Init ==
    /\ stack = <<>>
    /\ idents = EmptyMap
    /\ procs = EmptyMap
    /\ frames = <<>>
    /\ error = NoError
    /\ output = <<>>
    /\ nlines = 0
    /\ bound = EmptyMap
    /\ parsed = <<>>
    /\ exited = [evals |-> <<>>, ran |-> <<>>]
    /\ \/ /\ mode = "api"
          /\ status = "new"
          /\ program \in { New(prog) : prog \in Programs }
          /\ code = <<>>
          /\ lexed = <<>>
       \/ /\ mode = "repl"
          /\ status = "prompt"
          /\ program = New(<<>>)
          /\ code = <<>>
          /\ lexed = <<>>
       \/ /\ mode = "file"
          /\ status = "source"
          /\ program = <<>>
          /\ code \in Sources
          /\ lexed = <<>>
       \/ /\ mode = "parser"
          /\ status = "tokens"
          /\ program = <<>>
          /\ code = <<>>
          /\ lexed \in TokenLists

Next ==
    \/ Tokenise
    \/ ParseTokens
    \/ InterpreterNew
    \/ Interpret
    \/ PushLiteral
    \/ PushIdent
    \/ SingleOp
    \/ DoubleOp
    \/ BindStmt
    \/ IfStmt
    \/ IfCondition
    \/ ElifCondition
    \/ IfDone
    \/ WhileStmt
    \/ WhileCondition
    \/ WhileRepeat
    \/ ProcedureStmt
    \/ CallStmt
    \/ CallDone
    \/ EmptyStmt
    \/ InterpretDone
    \/ \E line \in Lines : ReplLine(line)
    \/ ReplResult

Spec == Init /\ [][Next]_vars

(***************************************************************************)
(* Properties.                                                             *)
(***************************************************************************)
Range(s) == { s[i] : i \in DOMAIN s }

IsPushIdent == At("Push") /\ Cur.value.tag = "Ident"

Failed(e) == status' = "error" /\ error' = e

\* C1: no name is at once a key of idents and a key of procs: a Bind of n
\* leaves n bound and without a procedure, a Procedure n leaves n a
\* procedure and unbound; so a Call n after a Bind n fails with
\* ProcDoesNotExist(n) and a Push of the identifier n after a Procedure n
\* fails with IdentDoesNotExist(n).
C1_OneNamespace ==
    [][ /\ DOMAIN idents' \cap DOMAIN procs' = {}
        /\ (At("Bind") /\ stack # <<>>)
             => (Cur.ident \in DOMAIN idents' /\ Cur.ident \notin DOMAIN procs')
        /\ At("Procedure")
             => (Cur.ident \in DOMAIN procs' /\ Cur.ident \notin DOMAIN idents')
        /\ (At("Call") /\ Cur.ident \in DOMAIN bound)
             => Failed(ProcDoesNotExist(Cur.ident))
        /\ (IsPushIdent /\ Cur.value.ident \in DOMAIN procs)
             => Failed(IdentDoesNotExist(Cur.value.ident)) ]_vars

\* a Call p failed although a Procedure p ran earlier: the Bind p between
\* the two removed it
C1_Witness ==
    /\ program = New(<< Procedure("p", << PushL(Num(0)) >>) >> \o << PushL(Num(2)), Bind("p") >>
                       \o << PushI("p") >> \o << Call("p") >>)
    /\ status = "error"
    /\ error = ProcDoesNotExist("p")
    /\ stack = << Num(2) >>

\* C2: a unary operator on an empty stack, and a binary operator on a stack
\* of fewer than two values, fail with InvalidStackAmount carrying the arity
\* (1, resp. 2), and the stack after the failure is the stack before it.
C2_Underflow ==
    [][ /\ (At("SingleOperation") /\ stack = <<>>)
             => (Failed(InvalidStackAmount(SingleAction(Cur.op), 1)) /\ stack' = stack)
        /\ (At("DoubleOperation") /\ Len(stack) < 2)
             => (Failed(InvalidStackAmount(DoubleAction(Cur.op), 2)) /\ stack' = stack) ]_vars

\* a binary operator failed on a stack of one value, which is still there
C2_Witness ==
    /\ status = "error"
    /\ error = InvalidStackAmount("Addition", 2)
    /\ stack = << String(<< "a", "b" >>) >>

\* C3: a binary operator that fails with InvalidOperation on its two
\* operands leaves the whole stack as it was before the statement.
C3_OperandsRestored ==
    [][ (At("DoubleOperation") /\ Len(stack) >= 2
           /\ status' = "error" /\ error'.kind = "InvalidOperation")
          => stack' = stack ]_vars

\* a subtraction of two strings failed, the operands are back in order
C3_Witness ==
    /\ status = "error"
    /\ error.kind = "InvalidOperation"
    /\ stack = << Num(7), String(<< "a" >>), String(<< "a", "b" >>) >>
    /\ program[4] = Op2("Sub")

\* the frame f is at the If statement s, g is the frame above it
IfLog(f, s, g) ==
    /\ Len(f.ran) <= 1
    /\ Len(f.evals) <= 1 + Len(s.elifs)
    /\ \A j \in 1 .. Len(f.evals) - 1 : ~f.evals[j]
    /\ f.ran = <<>> =>
         /\ \A j \in 1 .. Len(f.evals) : ~f.evals[j]
         /\ Len(f.evals) <= Len(s.elifs)
         /\ g.role = (IF f.evals = <<>> THEN "if_cond" ELSE "elif_cond")
         /\ g.k = Len(f.evals)
         /\ g.stmts = (IF g.k = 0 THEN s.conds ELSE s.elifs[g.k][1])
    /\ (f.ran # <<>> /\ f.ran[1] = 0) =>
         /\ f.evals = << TRUE >>
         /\ g.role = "if_then" /\ g.stmts = s.body
    /\ (f.ran # <<>> /\ f.ran[1] >= 1) =>
         /\ Len(f.evals) = f.ran[1] + 1
         /\ f.evals[f.ran[1] + 1]
         /\ g.role = "elif_body" /\ g.stmts = s.elifs[f.ran[1]][2]
    /\ (f.ran # <<>> /\ f.ran[1] = -1) =>
         /\ Len(f.evals) = 1 + Len(s.elifs)
         /\ \A j \in 1 .. Len(f.evals) : ~f.evals[j]
         /\ g.role = "else" /\ g.stmts = s.els

Pending(i, type) ==
    /\ frames[i].pc <= Len(frames[i].stmts)
    /\ frames[i].stmts[frames[i].pc].type = type

\* C4: an If runs at most one of its bodies: the then-body when the if
\* condition popped true, else the body of the first elif, in source order,
\* whose condition popped true, the conditions of the elifs after it never
\* being run; the else-body exactly when the if condition and every elif
\* condition popped false.
C4_OneBranch ==
    \A i \in 1 .. Len(frames) - 1 :
        Pending(i, "If") => IfLog(frames[i], frames[i].stmts[frames[i].pc], frames[i + 1])

\* the body of the first of three elifs has run, after false and true
C4_Witness ==
    /\ Len(frames) = 2
    /\ Pending(1, "If")
    /\ Len(Owner.elifs) = 3
    /\ Owner.elifs[2][1] = << PushL(Bool(TRUE)) >>
    /\ Parent.evals = << FALSE, TRUE >>
    /\ Parent.ran = << 1 >>
    /\ AtEnd("elif_body")
    /\ stack = << Bool(TRUE), Num(2) >>

\* the frame f is at the While statement s, g is the frame above it
WhileLog(f, s, g) ==
    /\ Len(f.evals) = Len(f.ran)
    /\ \A j \in 1 .. Len(f.evals) : f.evals[j] /\ f.ran[j] = j
    /\ \/ g.role = "while_cond" /\ g.stmts = s.conds
       \/ g.role = "while_body" /\ g.stmts = s.body /\ f.ran # <<>>

\* the conditions and the bodies of a While that ended: k times true and
\* k bodies, then false
WhileEnded(log) ==
    \/ log = [evals |-> <<>>, ran |-> <<>>]
    \/ /\ Len(log.evals) = Len(log.ran) + 1
       /\ \A j \in 1 .. Len(log.ran) : log.evals[j] /\ log.ran[j] = j
       /\ ~log.evals[Len(log.evals)]

\* C5: a While runs its condition before every iteration: a condition that
\* pops true k times and then false gives k runs of the body and k + 1 of
\* the condition, and a loop whose condition is always true never ends.
C5_WhileLoop ==
    /\ \A i \in 1 .. Len(frames) - 1 :
         Pending(i, "While") =>
           WhileLog(frames[i], frames[i].stmts[frames[i].pc], frames[i + 1])
    /\ WhileEnded(exited)
    /\ \A k \in 0 .. MaxIter - 1 :
         (program = New(CountLoop(k)) /\ status = "done") =>
           (Len(exited.ran) = k /\ stack = << Num(k), Marker >>)
    /\ (\E body \in { <<>>, << PushL(Num(2)), Op1("Drop") >> } : program = New(Forever(body)))
         => status \in { "new", "running" }

\* the counting loop ended after two runs of its body and three of its
\* condition
C5_Witness ==
    /\ program = New(CountLoop(2))
    /\ status = "done"
    /\ exited = [evals |-> << TRUE, TRUE, FALSE >>, ran |-> << 1, 2 >>]
    /\ stack = << Num(2), Marker >>

\* C6: a Call runs the body stored under the name on the caller's stack,
\* bindings and procedures, and what the body pushed, bound and defined is
\* there after the Call; a Call of a name that is no procedure fails with
\* ProcDoesNotExist.  `10 bind x proc p do x 1 + end call p print` prints 11.
C6_CallInline ==
    [][ /\ (At("Call") /\ Cur.ident \notin DOMAIN procs)
             => (Failed(ProcDoesNotExist(Cur.ident)) /\ UNCHANGED << stack, idents, procs >>)
        /\ (At("Call") /\ Cur.ident \in DOMAIN procs)
             => /\ frames' = Append(frames, Frame(procs[Cur.ident], "call", 0))
                /\ UNCHANGED << stack, idents, procs, status >>
        /\ AtEnd("call")
             => (frames' = Return(frames) /\ UNCHANGED << stack, idents, procs, status >>)
        /\ (program = New(CallScenario) /\ status' = "done")
             => (output' = << [text |-> << "1", "1" >>, err |-> NoError] >> /\ stack' = <<>>)
        /\ (program = New(CallEffects) /\ status' = "done")
             => /\ stack' = << Num(2), String(<< "a" >>), Num(0), Num(0) >>
                /\ DOMAIN idents' = { "x" }
                /\ DOMAIN procs' = { "p", "q" } ]_vars

\* the scenario ended, 11 printed
C6_Witness ==
    /\ program = New(CallScenario)
    /\ status = "done"
    /\ Len(output) = 1 /\ Text(output[1].text) = "11"
    /\ idents = [n \in { "x" } |-> Num(10)]
    /\ DOMAIN procs = { "p" }

\* C7: a Bind n pops the top value and binds n to it; a Push of the
\* identifier n pushes the value of the most recent Bind n that no
\* Procedure n followed, leaving the binding in place, and fails with
\* IdentDoesNotExist when there is none.
C7_BindThenPush ==
    [][ /\ (At("Bind") /\ stack # <<>>)
             => (stack' = Pop(stack) /\ idents'[Cur.ident] = Peek(stack))
        /\ (IsPushIdent /\ Cur.value.ident \in DOMAIN bound)
             => /\ stack' = Append(stack, bound[Cur.value.ident])
                /\ UNCHANGED << idents, status >>
        /\ (IsPushIdent /\ Cur.value.ident \notin DOMAIN bound)
             => (Failed(IdentDoesNotExist(Cur.value.ident)) /\ UNCHANGED << stack, idents >>) ]_vars

\* x bound twice and pushed twice: the second value both times
C7_Witness ==
    /\ program = New(<< PushL(Num(2)), Bind("x") >> \o << PushL(String(<< "a" >>)), Bind("x") >>
                       \o << PushI("x") >> \o << PushI("x") >>)
    /\ status = "done"
    /\ stack = << String(<< "a" >>), String(<< "a" >>) >>
    /\ idents = [n \in { "x" } |-> String(<< "a" >>)]

ReplState == << stack, idents, procs >>

\* C8: at the prompt the stack, the bindings and the procedures are those
\* the lines before left: reading a line changes none of them, a line the
\* lexer or the parser rejects is reported and nothing else, a line that
\* fails while running keeps what it did before the failure, and after
\* every line that is not exit or quit the session goes on to the next.
C8_ReplSession ==
    [][ mode = "repl" =>
          /\ status = "prompt"
               => (status' \in { "prompt", "running", "exited" } /\ UNCHANGED ReplState)
          /\ (status = "prompt" /\ status' = "prompt")
               => /\ error'.kind \in { "StringNotTerminated", "InvalidString", "NonMatchingToken" }
                  /\ output' = Append(output, OutErr(error'))
                  /\ UNCHANGED program
          /\ status = "running" => status' \in { "running", "done", "error" }
          /\ status \in { "done", "error" }
               => (status' = "prompt" /\ UNCHANGED ReplState)
          /\ (status = "running" /\ status' = "error")
               => (UNCHANGED << idents, procs >> /\ stack' \in { stack, Pop(stack) })
          /\ status' = "exited" <=> (status = "prompt" /\ IsQuit(code'))
          /\ status # "exited" ]_vars

\* after `1 2 bind x +`, which failed in the +, and `1 #`, which the lexer
\* rejected
C8_Witness ==
    /\ mode = "repl" /\ status = "prompt" /\ nlines = 2
    /\ stack = << Num(1) >>
    /\ idents = [n \in { "x" } |-> Num(2)]
    /\ error.kind = "InvalidString" /\ error.msg = "#"
    /\ Len(output) = 2
    /\ output[1].err = InvalidStackAmount("Addition", 2)

\* C9: a statement that fails ends interpret with its error at once: no
\* statement after it runs (the rest of the body of an If, a While or a
\* Call, further iterations, the rest of the program), nothing is run
\* again, and what ran before the failure stays.
C9_ErrorStops ==
    [][ /\ (status = "running" /\ error' # error) => (status' = "error" /\ frames' = <<>>)
        /\ status' = "error" => (frames' = <<>> /\ Marker \notin Range(stack'))
        /\ (status = "running" /\ status' = "error")
             => (UNCHANGED << idents, procs >> /\ stack' \in { stack, Pop(stack) })
        /\ status = "error" => UNCHANGED << stack, idents, procs, frames, program >> ]_vars

\* the third Bind of the loop failed, the first two are kept
C9_Witness ==
    /\ program = New(BindLoop)
    /\ status = "error"
    /\ error = InvalidStackAmount("Binding", 1)
    /\ idents = [n \in { "x" } |-> Num(2)]
    /\ stack = <<>>
    /\ frames = <<>>

Ordering == { "GT", "GTEq", "LT", "LTEq" }

\* C10: an ordering comparison (>, >=, <, <=) of two operands of different
\* kinds fails with InvalidOperation and pushes no Bool.
C10_OrderingAcrossKinds ==
    [][ (At("DoubleOperation") /\ Cur.op \in Ordering /\ Len(stack) >= 2
           /\ stack[Len(stack) - 1].kind # stack[Len(stack)].kind)
          => (status' = "error" /\ error'.kind = "InvalidOperation" /\ stack' = stack) ]_vars

\* 2 < "a" pushed true
C10_Witness ==
    /\ program = New(<< PushL(Num(7)), PushL(Num(2)), PushL(String(<< "a" >>)), Op2("LT"),
                        PushL(Marker) >>)
    /\ status = "done"
    /\ stack = << Num(7), Bool(TRUE), Marker >>

\* the statement at hand is the binary operator o, with two operands
AtDouble(o) == At("DoubleOperation") /\ Cur.op = o /\ Len(stack) >= 2

\* the stack after the operator at hand replaced its two operands by v
Replaced(v) ==
    /\ status' # "error"
    /\ stack' = Append(SubSeq(stack, 1, Len(stack) - 2), v)

\* two literals are the same value (a NaN is equal to no number)
Same(a, b) == a = b /\ ~(a.kind = "Number" /\ IsNaN(Val(a)))

\* C11: on operands of different kinds `==` pushes false and `!=` pushes
\* true, without an error; on operands of the same kind `==` pushes true
\* exactly when they are equal, and `!=` pushes the negation.
C11_Equality ==
    [][ LET a == stack[Len(stack) - 1]
            b == stack[Len(stack)]
        IN  /\ AtDouble("Eq") =>
                 Replaced(Bool(IF a.kind # b.kind THEN FALSE ELSE Same(a, b)))
            /\ AtDouble("NotEq") =>
                 Replaced(Bool(IF a.kind # b.kind THEN TRUE ELSE ~Same(a, b))) ]_vars

\* `7 2 "a" !=` pushed true, and the program went on
C11_Witness ==
    /\ status = "done"
    /\ Len(program) > 4
    /\ program[2] = PushL(Num(2))
    /\ program[3] = PushL(String(<< "a" >>))
    /\ program[4] = Op2("NotEq")
    /\ stack = << Num(7), Bool(TRUE), Marker >>

\* the run of the source file is over
Ended == mode = "file" /\ status \in { "done", "error", "panic" }

\* C12: `and` and `or` pop two operands and push their conjunction or
\* disjunction when both are Bool (`true false and print` prints false), and
\* fail with InvalidOperation when an operand is not a Bool.
C12_AndOr ==
    \A a \in LogicOperands, b \in LogicOperands, o \in { "and", "or" } :
        (Ended /\ code = LogicSource(a, b, o)) =>
            IF a # "1" /\ b # "1"
            THEN /\ status = "done"
                 /\ output = << OutVal(Bool(IF o = "and" THEN a = "true" /\ b = "true"
                                            ELSE a = "true" \/ b = "true")) >>
            ELSE status = "error" /\ error.kind = "InvalidOperation"

\* `true false and print` ended on the unknown identifier `and`, nothing printed
C12_Witness ==
    /\ mode = "file"
    /\ code = Chars("true false and print")
    /\ status = "error"
    /\ error = IdentDoesNotExist("and")
    /\ stack = << Bool(TRUE), Bool(FALSE) >>
    /\ output = <<>>

Arithmetic == { "Add", "Sub", "Mul", "Div", "Mod" }

\* the combinations of operand kinds the claim lists for the operator o
Accepted(o, a, b) ==
    \/ a.kind = "Number" /\ b.kind = "Number"
    \/ o = "Add" /\ a.kind = "String" /\ b.kind = "String"
    \/ o = "Mul" /\ a.kind = "String" /\ b.kind = "Number"

Exact(o, x, y, r) ==
    CASE o = "Add" ->
            IsFinite(r) /\ r.num * x.den * y.den = (x.num * y.den + y.num * x.den) * r.den
      [] o = "Sub" ->
            IsFinite(r) /\ r.num * x.den * y.den = (x.num * y.den - y.num * x.den) * r.den
      [] o = "Mul" ->
            IsFinite(r) /\ r.num * x.den * y.den = x.num * y.num * r.den
      [] o = "Div" ->
            IF y.num # 0 THEN IsFinite(r) /\ r.num * x.den * y.num = x.num * y.den * r.den
            ELSE IF x.num = 0 THEN IsNaN(r)
            ELSE IsInf(r) /\ r.num = Sign(x.num)
      [] o = "Mod" ->
            IF y.num = 0 THEN IsNaN(r)
            ELSE /\ IsFinite(r)
                 /\ \E q \in -4 .. 4 :
                      r.num * x.den * y.den = (x.num * y.den - q * y.num * x.den) * r.den
                 /\ Abs(r.num) * y.den < Abs(y.num) * r.den
                 /\ r.num = 0 \/ Sign(r.num) = Sign(x.num)

\* a line of stdout with the text t
Printed(t) == [text |-> Chars(t), err |-> NoError]

\* C14: on two finite Number operands pushed a then b, an arithmetic
\* operator replaces them by the one value a op b, the value pushed first
\* on the left; `2 3 + print` prints 5 and `5 dup * print` prints 25.
C14_LeftOperandFirst ==
    [][ /\ \A o \in Arithmetic :
             LET a == stack[Len(stack) - 1]
                 b == stack[Len(stack)]
             IN  (AtDouble(o) /\ a.kind = "Number" /\ b.kind = "Number"
                    /\ IsFinite(Val(a)) /\ IsFinite(Val(b)))
                   => /\ status' = "running"
                      /\ Len(stack') = Len(stack) - 1
                      /\ SubSeq(stack', 1, Len(stack) - 2) = SubSeq(stack, 1, Len(stack) - 2)
                      /\ Peek(stack').kind = "Number"
                      /\ Exact(o, Val(a), Val(b), Val(Peek(stack')))
        /\ (Ended' /\ code' = Chars("2 3 + print")) =>
             (status' = "done" /\ output' = << Printed("5") >>)
        /\ (Ended' /\ code' = Chars("5 dup * print")) =>
             (status' = "done" /\ output' = << Printed("25") >>)
        /\ (Ended' /\ code' = Chars("2 5 - print")) =>
             (status' = "done" /\ output' = << Printed("-3") >>) ]_vars

\* `5 dup * print` printed 25
C14_Witness ==
    /\ mode = "file"
    /\ code = Chars("5 dup * print")
    /\ status = "done"
    /\ output = << Printed("25") >>
    /\ stack = <<>>

\* the statement the claim gives for the operator or built-in w
VariantOf(w) ==
    CASE w = "+" -> Op2("Add")    [] w = "-" -> Op2("Sub")    [] w = "*" -> Op2("Mul")
      [] w = "/" -> Op2("Div")    [] w = "%" -> Op2("Mod")    [] w = ">" -> Op2("GT")
      [] w = ">=" -> Op2("GTEq")  [] w = "<" -> Op2("LT")     [] w = "<=" -> Op2("LTEq")
      [] w = "==" -> Op2("Eq")    [] w = "!=" -> Op2("NotEq") [] w = "swap" -> Op2("Swap")
      [] w = "print" -> Op1("Print") [] w = "dup" -> Op1("Dup") [] w = "drop" -> Op1("Drop")

\* the source file was lexed and parse has returned
AfterParse == mode = "file" /\ status \notin { "source", "tokens" }

\* C15: the parser accepts every operator and built-in token the lexer
\* produces and maps it to its variant (`%` to Mod among them); a token that
\* starts no statement is reported as the unexpected token.
C15_OperatorMapping ==
    /\ \A w \in OperatorWords :
         (AfterParse /\ code = Chars(w)) => parsed = << VariantOf(w), Empty >>
    /\ (AfterParse /\ code = Chars("do")) =>
         (status = "error" /\ error.msg = "Do" /\ parsed = <<>>)

\* the source `%` was lexed as Percent, which the parser reports as a token
\* that starts no statement
C15_Witness ==
    /\ mode = "file"
    /\ code = Chars("%")
    /\ lexed = << Token("Percent", "%", None) >>
    /\ status = "error"
    /\ error.kind = "NonMatchingToken"
    /\ error.msg = "Percent"

\* C16: a source derived from the grammar parses into one statement for
\* every top-level statement: an if with `else do`, a while and a proc each
\* take the tokens up to their own `end`, and the tokens after it are the
\* following statements (`if 1 2 > do "big" else do "small" end print`
\* prints small).
C16_BlocksParse ==
    /\ (AfterParse /\ code \in BlockSources) => status # "error"
    /\ (AfterParse /\ code = IfElseSource) =>
         /\ Len(parsed) = 3
         /\ parsed[1].type = "If" /\ parsed[2] = Op1("Print") /\ parsed[3] = Empty
    /\ (Ended /\ code = IfElseSource) => output = << Printed("small") >>
    /\ (AfterParse /\ code = WhileSource) =>
         /\ Len(parsed) = 4
         /\ parsed[1].type = "While" /\ parsed[2] = PushL(Num(2))
    /\ (Ended /\ code = WhileSource) => output = << Printed("2") >>
    /\ (AfterParse /\ code = ProcSource) =>
         /\ Len(parsed) = 4
         /\ parsed[1].type = "Procedure" /\ parsed[2] = Call("p")
    /\ (Ended /\ code = ProcSource) => output = << Printed("3") >>

\* the parser stopped at the `do` that follows `else`
C16_Witness ==
    /\ mode = "file"
    /\ code = IfElseSource
    /\ Len(lexed) = 11
    /\ status = "error"
    /\ error.kind = "NonMatchingToken"
    /\ error.msg = "Do"
    /\ output = <<>>

\* parse has returned on the token vector handed to the parser
Returned == mode = "parser" /\ status # "tokens"

\* C17: when an if or while block is opened and the input ends before the
\* `do` or the terminator the block requires, parse returns the error whose
\* found token is EOF, and no statement list.
C17_EofInBlock ==
    (Returned /\ lexed \in Unterminated) =>
        /\ status = "error"
        /\ error.kind = "NonMatchingToken"
        /\ error.msg = "EOF"
        /\ parsed = <<>>

\* `if false do else if false do endif`, the outer if not closed, was parsed
\* into a statement list
C17_Witness ==
    /\ mode = "parser"
    /\ lexed = << Tk("If"), TkBool(FALSE), Tk("Do"), Tk("Else"),
                  Tk("If"), TkBool(FALSE), Tk("Do"), Tk("EndIf") >>
    /\ status = "parsed"
    /\ parsed = << If(<< PushL(Bool(FALSE)) >>, <<>>, <<>>,
                      << If(<< PushL(Bool(FALSE)) >>, <<>>, <<>>, <<>>) >>),
                   Empty >>

\* the last element of s is Empty, and no other is
OneEmpty(s) ==
    /\ s # <<>>
    /\ Peek(s) = Empty
    /\ \A i \in 1 .. Len(s) - 1 : s[i] # Empty

\* what parse returned, and the program of the interpreter built from it
ParsedProgram ==
    /\ status = "parsed" => OneEmpty(parsed)
    /\ (mode \in { "file", "parser" } /\ status \in { "new", "running", "done" }) =>
         (program = parsed /\ OneEmpty(program))
    /\ mode = "repl" => OneEmpty(program)
    /\ (mode = "api" \/ frames # <<>>) => (program # <<>> /\ Peek(program) = Empty)

\* C18: every successful parse, that of the empty token sequence included,
\* returns a sequence that ends in Empty and holds no other Empty; the
\* program of the interpreter is never empty; executing Empty changes
\* nothing.
C18_TrailingEmpty ==
    [][ /\ ParsedProgram
        /\ ParsedProgram'
        /\ At("Empty") =>
             /\ status' = "running"
             /\ << stack', idents', procs', output', error' >>
                  = << stack, idents, procs, output, error >> ]_vars

\* the empty token sequence was parsed into the one statement Empty, and run
C18_Witness ==
    /\ mode = "parser"
    /\ lexed = <<>>
    /\ parsed = << Empty >>
    /\ program = << Empty >>
    /\ status = "done"

\* the last element of ts is the end-of-input token, and no other is
OneEof(ts) ==
    /\ ts # <<>>
    /\ Peek(ts).token_type = "EOF"
    /\ \A i \in 1 .. Len(ts) - 1 : ts[i].token_type # "EOF"

\* tokenize has returned the token vector of the source file
Lexed == mode = "file" /\ status = "tokens"

\* C19 as stated: the token sequence tokenize returns for a source that
\* lexes without error, with or without trailing whitespace or comment, ends
\* with exactly one end-of-input token and contains no other.
C19_TokenizeEndsInEof ==
    Lexed => OneEof(lexed)

\* the tokens next_token returns when called from cursor p until it returns
\* the end-of-input token
RECURSIVE Drain(_, _)
Drain(src, p) ==
    With(NextToken(src, p),
         LAMBDA r : IF r.tag # "Ok" THEN <<>>
                    ELSE IF r.tok.token_type = "EOF" THEN << r.tok >>
                    ELSE << r.tok >> \o Drain(src, r.pos))

\* C19, amended: the token sequence tokenize returns holds at most one
\* end-of-input token, and only as its last element; it ends with one when
\* whitespace or a comment follows the last lexical unit and holds none
\* otherwise.  The token vector Parser::new builds from it ends with exactly
\* one end-of-input token, and next_token called after the last lexical unit
\* returns end-of-input.
C19_OneEofForParser ==
    Lexed =>
        /\ \A i \in 1 .. Len(lexed) - 1 : lexed[i].token_type # "EOF"
        /\ \A u \in Units, t \in Trailers :
             code = Chars(u) \o Chars(t) => (OneEof(lexed) <=> t # "")
        /\ OneEof(ParserNew(lexed))
        /\ OneEof(Drain(LexerNew(code), 1))
        /\ Pop(Drain(LexerNew(code), 1)) = Pop(ParserNew(lexed))

\* tokenize returned the one token of the source `1`, and no end-of-input
C19_Witness ==
    /\ Lexed
    /\ code = Chars("1")
    /\ Len(lexed) = 1
    /\ lexed[1].token_type = "Number"

\* the token types of `>`, `<`, `>=`, `<=`, `==`, `!=`
CompareType(w) ==
    CASE w = ">" -> "GT"     [] w = "<" -> "LT"   [] w = ">=" -> "GTEq"
      [] w = "<=" -> "LTEq"  [] w = "==" -> "Eq"  [] w = "!=" -> "NotEq"

\* C20: `>` or `<` followed by a character other than `=`, whitespace or the
\* end of input, and `=` or `!` not followed by `=`, fail with InvalidString
\* of the operator and the character after it, at the index of the operator
\* character, alike for the four operators; `>` and `<` before whitespace or
\* the end of input are GT and LT, and `>=`, `<=`, `==`, `!=` are the
\* two-character tokens.
C20_CompareErrors ==
    \A pre \in Befores, op \in Compares, next \in Afters :
        (mode = "file" /\ status # "source" /\ code = CompareSource(pre, op, next)) =>
            LET k == IF pre = "" THEN 1 ELSE 2
                w == IF next = "=" THEN op \o "=" ELSE op
            IN  IF next = "=" \/ (op \in { ">", "<" } /\ next \in { "", " 1" })
                THEN /\ Len(lexed) >= k
                     /\ lexed[k].token_type = CompareType(w)
                     /\ lexed[k].lexeme = w
                ELSE /\ status = "error"
                     /\ error = InvalidString(op \o (IF next = "" THEN NUL ELSE Chars(next)[1]),
                                              Len(pre))

\* `1 >a` failed on `>a`, reported at the index of `a`
C20_Witness ==
    /\ mode = "file"
    /\ code = Chars("1 >a")
    /\ status = "error"
    /\ error = InvalidString(">a", 3)

\* C21: a source whose string literal is still open at the end of the input
\* makes tokenize return StringNotTerminated and no token list: no statement
\* is executed and nothing is printed, also when valid statements precede
\* the string.
C21_OpenString ==
    (mode = "file" /\ code \in OpenStringSources) =>
        /\ status \in { "source", "error" }
        /\ status = "error" => error = StringNotTerminated
        /\ lexed = <<>> /\ parsed = <<>> /\ program = <<>>
        /\ frames = <<>> /\ stack = <<>> /\ output = <<>>

\* `1 print "abc` ended in StringNotTerminated, the 1 was not printed
C21_Witness ==
    /\ mode = "file"
    /\ code = Chars("1 print \"abc")
    /\ status = "error"
    /\ error = StringNotTerminated
    /\ output = <<>>

\* the text s from its first newline on
RECURSIVE FromNewline(_)
FromNewline(s) == IF s = <<>> \/ Head(s) = "\n" THEN s ELSE FromNewline(Tail(s))

\* the text s without its `//` comments; quoted tells whether s starts
\* inside a string literal
RECURSIVE Strip(_, _)
Strip(s, quoted) ==
    IF s = <<>> THEN <<>>
    ELSE IF quoted THEN << Head(s) >> \o Strip(Tail(s), Head(s) # "\"")
    ELSE IF Head(s) = "\"" THEN << Head(s) >> \o Strip(Tail(s), TRUE)
    ELSE IF Head(s) = "/" /\ Len(s) >= 2 /\ s[2] = "/" THEN Strip(FromNewline(s), FALSE)
    ELSE << Head(s) >> \o Strip(Tail(s), FALSE)

\* tokenize returned an error for the source file
LexFailed ==
    mode = "file" /\ status = "error" /\ error.kind \in { "InvalidString", "StringNotTerminated" }

\* the token types of ts
Types(ts) == [i \in 1 .. Len(ts) |-> ts[i].token_type]

\* C22 as stated: the token sequence of a source is the token sequence of
\* the source with every comment outside string literals removed.
C22_CommentsRemoved ==
    (mode = "file" /\ status # "source") =>
        With(Tokenize(Strip(code, FALSE)),
             LAMBDA t : IF LexFailed THEN t.tag = "Err" /\ t.err = error
                        ELSE t.tag = "Ok" /\ lexed = t.tokens)

\* the tokens of ts before its end-of-input token
BeforeEof(ts) == IF ts # <<>> /\ Peek(ts).token_type = "EOF" THEN Pop(ts) ELSE ts

\* C22, amended: whitespace and comments produce no tokens.  For a source
\* that lexes without error, the tokens before the end-of-input token are
\* those of the source with every comment outside string literals removed
\* (the end-of-input token itself is returned only when whitespace or a
\* comment follows the last unit); lexing resumes after the newline of a
\* comment; a source that is only a comment yields only end-of-input; a `/`
\* not followed by `/` is the Slash operator.
C22_CommentsSkipped ==
    /\ Lexed =>
         With(Tokenize(Strip(code, FALSE)),
              LAMBDA t : t.tag = "Ok" /\ BeforeEof(lexed) = BeforeEof(t.tokens))
    /\ (Lexed /\ code \in { Chars("//c"), Chars("//c\n") }) => lexed = << TokenEof >>
    /\ (Lexed /\ code = Chars("1 //c\n//c\n 2")) => Types(lexed) = << "Number", "Number" >>
    /\ (Lexed /\ code = Chars("6 / 2 //c")) =>
         Types(lexed) = << "Number", "Slash", "Number", "EOF" >>
    /\ (Lexed /\ code = Chars("/ /")) => Types(lexed) = << "Slash", "Slash" >>

\* the comment after `1` left the number and the end-of-input token
C22_Witness ==
    /\ Lexed
    /\ code = Chars("1//c")
    /\ Types(lexed) = << "Number", "EOF" >>

\* the program pushes three literals and swaps twice
IsSwapTwice(prog) ==
    /\ Len(prog) = 7
    /\ \A i \in 1 .. 3 : prog[i].type = "Push" /\ prog[i].value.tag = "Literal"
    /\ prog[4] = Op2("Swap") /\ prog[5] = Op2("Swap")

\* C23: Swap exchanges the two top values, whatever their kinds, and does
\* not fail on a stack of two or more values; two Swaps in a row leave the
\* stack as it was.
C23_SwapTwice ==
    [][ /\ AtDouble("Swap") =>
             /\ status' = "running"
             /\ stack' = SubSeq(stack, 1, Len(stack) - 2)
                           \o << stack[Len(stack)], stack[Len(stack) - 1] >>
        /\ (status' = "running" /\ Top'.pc = 6 /\ IsSwapTwice(program'))
             => stack' = << program'[1].value.lit, program'[2].value.lit,
                            program'[3].value.lit >> ]_vars

\* `7 2 "a" swap swap` ran: the number and the string are back in place
C23_Witness ==
    /\ program = New(SwapTwice(Num(2), String(<< "a" >>)))
    /\ status = "done"
    /\ stack = << Num(7), Num(2), String(<< "a" >>), Marker >>

\* the statement at hand is the unary operator o, with its operand
AtSingle(o) == At("SingleOperation") /\ Cur.op = o /\ stack # <<>>

\* C24: Duplicate on a stack [..., v] leaves [..., v, v], for v of any kind:
\* one element more, the two on top equal to v, those below unchanged.
C24_Duplicate ==
    [][ AtSingle("Dup") =>
          /\ status' = "running"
          /\ Len(stack') = Len(stack) + 1
          /\ stack'[Len(stack')] = Peek(stack)
          /\ stack'[Len(stack') - 1] = Peek(stack)
          /\ SubSeq(stack', 1, Len(stack) - 1) = SubSeq(stack, 1, Len(stack) - 1) ]_vars

\* `7 "ab" dup` left the string twice, above the 7
C24_Witness ==
    /\ status = "done"
    /\ Len(program) > 3
    /\ program[3] = Op1("Dup")
    /\ stack = << Num(7), String(<< "a", "b" >>), String(<< "a", "b" >>), Marker >>

\* the condition statements of an If, an elif or a While have been executed
AtCheck == AtEnd("if_cond") \/ AtEnd("elif_cond") \/ AtEnd("while_cond")

\* the stack holds no Bool on top for the check
NoBool == stack = <<>> \/ Peek(stack).kind # "Bool"

\* C25: If and While fail with InvalidOperation whenever the stack is empty
\* or its top is not a Bool after the condition statements, and so does
\* every elif condition that is evaluated; no branch and no loop body is
\* executed then.
C25_ConditionNotBool ==
    [][ (AtCheck /\ NoBool) =>
          /\ status' = "error"
          /\ error'.kind = "InvalidOperation"
          /\ frames' = <<>>
          /\ << output', idents', procs' >> = << output, idents, procs >> ]_vars

\* the elif condition of `7 if false do .. elif "a" do .. else .. end` left a
\* string: the If failed, neither the elif body nor the else ran
C25_Witness ==
    /\ status = "error"
    /\ error = InvalidOperation(NotBool)
    /\ Len(program) > 2
    /\ program[2].type = "If"
    /\ program[2].elifs = << << << PushL(String(<< "a" >>)) >>, BodyOf(1) >> >>
    /\ stack = << Num(7) >>

\* the source t ran to its end and printed the one line p
Prints(t, p) == (Ended /\ code = Chars(t)) => (status = "done" /\ output = << Printed(p) >>)

\* C26: a String times a Number is the string repeated n times for a
\* non-negative integral n (`"ab" 3 *` is ababab, n = 0 the empty string)
\* and the empty string for a negative or non-integral n; it never fails.
C26_StringRepeat ==
    /\ Prints("\"ab\" 3 * print", "ababab")
    /\ Prints("\"ab\" 0 * print", "")
    /\ Prints("\"ab\" 2.5 * print", "")
    /\ Prints("\"ab\" 0.5 * print", "")
    /\ Prints("\"ab\" 0 1 - * print", "")
    /\ Prints("\"\" 2 0 / * print", "")
    /\ Prints("\"ab\" 0 0 / * print", "")
    /\ (Ended /\ code = Chars("\"ab\" 2 0 / * print")) => status = "done"

\* `"ab" 2 0 / *`: the repetition by infinity aborted the process
C26_Witness ==
    /\ mode = "file"
    /\ code = Chars("\"ab\" 2 0 / * print")
    /\ status = "panic"
    /\ output = <<>>

\* C27: a Call iterates a copy of the body that was stored under the name
\* when the Call started: no statement changes the list a running Call
\* iterates, so a body that defines its own name again, or binds it as a
\* variable, still runs the rest of the original statements, and only a later
\* Call finds the new body or fails with ProcDoesNotExist.
InCall(i) == i <= Len(frames) /\ frames[i].role = "call"

C27_CallCopy ==
    [][ /\ (At("Call") /\ Cur.ident \in DOMAIN procs)
             => frames'[Len(frames')] = Frame(procs[Cur.ident], "call", 0)
        /\ \A i \in 1 .. Len(frames') :
             (InCall(i) /\ ~(i = Len(frames) /\ AtEnd("call")))
               => (frames'[i].role = "call" /\ frames'[i].stmts = frames[i].stmts)
        /\ (AtStatement /\ Cur.type \in { "Procedure", "Bind" } /\ status' = "running"
              /\ InCall(Len(frames)))
             => /\ Len(frames') = Len(frames)
                /\ frames'[Len(frames)].pc = Top.pc + 1
        /\ (program = New(CallRedefine) /\ status' \in { "done", "error" })
             => (status' = "done" /\ stack' = << Num(0), Num(2) >>)
        /\ (program = New(CallUnbind) /\ status' \in { "done", "error" })
             => /\ Failed(ProcDoesNotExist("p"))
                /\ stack' = << Num(2) >>
                /\ idents' = [n \in { "p" } |-> Num(0)] ]_vars

\* the body that binds its own name pushed its last literal, and the second
\* Call found no procedure
C27_Witness ==
    /\ program = New(CallUnbind)
    /\ status = "error" /\ error = ProcDoesNotExist("p")
    /\ stack = << Num(2) >>
    /\ "p" \notin DOMAIN procs

\* C28: a statement leaves the stack below the operands it pops as it was.
\* When it succeeds, a Push and a Dup make the stack one deeper, a Swap
\* leaves its depth, a Print, a Drop, a Bind and every other binary operator
\* make it one shallower, and a Procedure and an Empty leave the stack as it
\* is; a Print, a Drop, a Dup and a binary operator leave the bindings and
\* the procedures as they are.
Operands(s) ==
    CASE s.type = "SingleOperation" -> 1
      [] s.type = "DoubleOperation" -> 2
      [] s.type = "Bind" -> 1
      [] OTHER -> 0

Growth(s) ==
    CASE s.type = "Push" -> 1
      [] s.type = "SingleOperation" -> (IF s.op = "Dup" THEN 1 ELSE -1)
      [] s.type = "DoubleOperation" -> (IF s.op = "Swap" THEN 0 ELSE -1)
      [] s.type = "Bind" -> -1
      [] OTHER -> 0

Simple == { "Push", "SingleOperation", "DoubleOperation", "Bind", "Procedure", "Empty" }

Below(s, n) == IF Len(s) <= n THEN <<>> ELSE SubSeq(s, 1, Len(s) - n)

C28_FrameEffect ==
    [][ (AtStatement /\ Cur.type \in Simple) =>
          /\ Len(stack') >= Len(Below(stack, Operands(Cur)))
          /\ Below(stack, Operands(Cur)) = SubSeq(stack', 1, Len(Below(stack, Operands(Cur))))
          /\ status' = "running" => Len(stack') = Len(stack) + Growth(Cur)
          /\ Cur.type \in { "Procedure", "Empty" } => UNCHANGED stack
          /\ Cur.type \in { "SingleOperation", "DoubleOperation" } => UNCHANGED << idents, procs >>
      ]_vars

\* a comparison ended above the 7 that was below its operands
C28_Witness ==
    /\ program = New(<< PushL(Num(7)), PushL(Num(0)), PushL(Num(2)), Op2("LT"), PushL(Marker) >>)
    /\ status = "done"
    /\ stack = << Num(7), Bool(TRUE), Marker >>

\* C29: a condition check of an If, an elif or a While that finds a value
\* that is no Bool has popped it and does not push it back: the stack after
\* the InvalidOperation is the stack the condition statements left without
\* its top, where a failed binary operator leaves both operands; a check that
\* finds the stack empty leaves it empty.
C29_CheckPops ==
    [][ /\ (AtCheck /\ NoBool) =>
              /\ status' = "error" /\ error'.kind = "InvalidOperation"
              /\ stack = <<>> => stack' = <<>>
              /\ stack # <<>> => stack' = SubSeq(stack, 1, Len(stack) - 1)
        /\ (At("DoubleOperation") /\ Len(stack) >= 2 /\ status' = "error") => stack' = stack
      ]_vars

\* `7 while "a" do .. end` failed and the string is gone
C29_Witness ==
    /\ program = New(<< PushL(Num(7)), While(<< PushL(String(<< "a" >>)) >>, BodyOf(0)),
                        PushL(Marker) >>)
    /\ status = "error"
    /\ error = InvalidOperation(WhileNotBool)
    /\ stack = << Num(7) >>

\* every next_token call of tokenize from cursor p on returns, moves the
\* cursor forward unless it is at the end, and leaves it inside src
RECURSIVE Advances(_, _)
Advances(src, p) ==
    With(NextToken(src, p),
         LAMBDA r : CASE r.tag = "Ok" ->
                           /\ r.pos <= Len(src)
                           /\ IF r.tok.token_type = "EOF" THEN src[r.pos] = NUL ELSE r.pos > p
                           /\ src[r.pos] = NUL \/ Advances(src, r.pos)
                      [] r.tag = "Err" -> TRUE
                      [] r.tag = "Panic" -> FALSE)

\* C30: tokenize returns for every source, the empty one too, with a token
\* list or an error of the error type: every next_token call that returns a
\* token other than EOF moves the cursor forward, the cursor never passes
\* the '\0' that ends the source, and no source (a digit run holding a
\* non-ASCII numeric character, a number ending in a dot) makes the lexer
\* abort.
C30_LexerReturns ==
    [][ (mode = "file" /\ status = "source") =>
          /\ status' \in { "tokens", "error" }
          /\ LexerNew(code)[1] = NUL \/ Advances(LexerNew(code), 1) ]_vars

\* the source `1` U+00B2 ended the process in the lexer
C30_Witness ==
    /\ mode = "file" /\ code = << "1", "SUP2" >>
    /\ status = "panic" /\ lexed = <<>> /\ output = <<>>

====
